---- MODULE Spec2Model ----
(***************************************************************************)
(* A model of the JSON pipeline tools of adpn-cli:                         *)
(*   - ADPNGetJSON (src/adpn-json.py), the JSON query tool;                *)
(*   - ADPNScriptPipeline (src/ADPNCommandLineTool.py), the helper that    *)
(*     reads a piped packet and backfills an option table from it.         *)
(* myPyJSON and myPyCommandLine (module myLockssScripts) are not part of   *)
(* the sources at hand; their definitions follow the written               *)
(* specification and are marked so where they are defined.                 *)
(*                                                                         *)
(* Text is a sequence of one-character strings, so that splitting,         *)
(* joining, prefix matching and percent-encoding are computed rather than  *)
(* assumed.  A JSON value is a tagged record; a dict is the ordered        *)
(* sequence of its <<key, value>> pairs, keys unique (Python keeps         *)
(* insertion order).                                                       *)
(***************************************************************************)
EXTENDS Integers, Sequences, FiniteSets, TLC

VARIABLES
    \* ---- ADPNGetJSON (the JSON query tool) ----
    switches,     \* the parsed command line of the query tool
    stdin,        \* the lines waiting on standard input
    pc,           \* position of execute()
    jsonRaw,      \* myPyJSON.raw of self.json: the text last accepted
    jsonData,     \* the packet self.json accumulated by merging
    table,        \* the table get_json_input returned
    output,       \* self._output, the output line buffer
    flags,        \* self._flags
    stdout,       \* what was printed to standard output
    stdoutEnd,    \* the end= terminator of the print that wrote stdout
    stderr,       \* the messages printed to standard error
    _exitcode,    \* self._exitcode
    exitStatus,   \* the status the process ended with
    accepts,      \* the screen argument of every self.json.accept call so far
    exc,          \* the exception that left or interrupted the run, if any
    \* ---- ADPNScriptPipeline and the option set ----
    stream_in,    \* the lines of the pipeline's input stream
    piped,        \* test_piped_input(): the stream is a FIFO or a file
    conditional,  \* self._conditional
    pipelines,    \* self._pipelines
    pipeData,     \* the packet the pipeline's self.json accumulated
    cli,          \* option values given on the command line
    defaultsFile, \* option values of the persisted defaults file
    builtin,      \* the script's built-in defaults
    optTable,     \* the option set the script resolved from the three
    call,         \* the last call of get_data or backfilled, and its result
    \* ---- ADPNCommandLineTool and the packaging tool ----
    scriptname,   \* self.scriptname
    _verbose,     \* self._verbose
    _debug,       \* self._debug
    package,      \* the directory being packaged: what its steps will meet
    args,         \* __main__ of the packaging tool: the positional tokens left
    reader        \* the process's standard input: lines consumed, reads begun

queryVars == <<switches, stdin, pc, jsonRaw, jsonData, table, output, flags,
               stdout, stdoutEnd, stderr, _exitcode, exitStatus, accepts,
               exc>>
pipeVars == <<stream_in, piped, conditional, pipelines, pipeData, cli,
              defaultsFile, builtin, optTable, call>>
toolVars == <<scriptname, _verbose, _debug, package, args, reader>>
toolRest == <<scriptname, _verbose, _debug, package, args>>
vars == <<queryVars, pipeVars, toolVars>>

-----------------------------------------------------------------------------
(* Bounds of the model *)

\* longest input, in lines, of the query tool and of the pipeline
MaxLines == 2
\* most flags added in one pass of the flag specification
MaxFlags == 3

-----------------------------------------------------------------------------
(* JSON values *)

None == [t |-> "none", v |-> 0]
VInt(n) == [t |-> "int", v |-> n]
VStr(s) == [t |-> "str", v |-> s]
VList(l) == [t |-> "list", v |-> l]
VDict(d) == [t |-> "dict", v |-> d]

IsNone(x) == x.t = "none"
IsList(x) == x.t = "list"
IsDict(x) == x.t = "dict"
IsStr(x) == x.t = "str"

Range(s) == {s[i] : i \in 1..Len(s)}

\* dict operations on the sequence of pairs
Keys(d) == [i \in 1..Len(d) |-> d[i][1]]
HasKey(d, k) == \E i \in 1..Len(d) : d[i][1] = k
Lookup(d, k) == d[CHOOSE i \in 1..Len(d) : d[i][1] = k][2]
\* dict.get(k): None when the key is absent
DictGet(d, k) == IF HasKey(d, k) THEN Lookup(d, k) ELSE None
\* d[k] = v: a present key keeps its place, a new key goes last
DictSet(d, k, v) ==
    IF HasKey(d, k)
    THEN [i \in 1..Len(d) |-> IF d[i][1] = k THEN <<k, v>> ELSE d[i]]
    ELSE Append(d, <<k, v>>)

RECURSIVE DictUpdate(_, _)
\* { **a, **b }
DictUpdate(a, b) ==
    IF b = <<>> THEN a
    ELSE DictUpdate(DictSet(a, b[1][1], b[1][2]), Tail(b))

-----------------------------------------------------------------------------
(* Text *)

RECURSIVE Join(_, _)
\* sep.join(parts)
Join(parts, sep) ==
    IF parts = <<>> THEN <<>>
    ELSE IF Len(parts) = 1 THEN parts[1]
    ELSE parts[1] \o sep \o Join(Tail(parts), sep)

RECURSIVE IntStr(_)
\* str(n) of an int
IntStr(n) ==
    IF n < 0 THEN <<"-">> \o IntStr(0 - n)
    ELSE IF n < 10 THEN <<ToString(n)>>
    ELSE IntStr(n \div 10) \o <<ToString(n % 10)>>

TAB == <<"\t">>
NL == <<"\n">>
CommaSpace == <<",", " ">>
ColonSpace == <<":", " ">>

RECURSIVE PyRepr(_)
\* repr(value), as str() uses it for the items of a list or dict
PyRepr(x) ==
    CASE x.t = "none" -> <<"N", "o", "n", "e">>
      [] x.t = "int" -> IntStr(x.v)
      [] x.t = "str" -> <<"'">> \o x.v \o <<"'">>
      [] x.t = "list" ->
            <<"[">> \o Join([i \in 1..Len(x.v) |-> PyRepr(x.v[i])], CommaSpace)
                    \o <<"]">>
      [] x.t = "dict" ->
            <<"{">> \o Join([i \in 1..Len(x.v) |->
                               PyRepr(VStr(x.v[i][1])) \o ColonSpace
                                 \o PyRepr(x.v[i][2])], CommaSpace)
                    \o <<"}">>

\* str(value)
PyStr(x) == IF x.t = "str" THEN x.v ELSE PyRepr(x)

\* the characters json.dumps writes with a backslash
JsonEscape(c) ==
    CASE c = "\"" -> <<"\\", "\"">>
      [] c = "\\" -> <<"\\", "\\">>
      [] c = "\n" -> <<"\\", "n">>
      [] c = "\t" -> <<"\\", "t">>
      [] OTHER -> <<c>>

RECURSIVE JsonQuote(_)
JsonQuote(s) == IF s = <<>> THEN <<>> ELSE JsonEscape(s[1]) \o JsonQuote(Tail(s))

RECURSIVE JsonDumps(_)
\* json.dumps(value) with no indent
JsonDumps(x) ==
    CASE x.t = "none" -> <<"n", "u", "l", "l">>
      [] x.t = "int" -> IntStr(x.v)
      [] x.t = "str" -> <<"\"">> \o JsonQuote(x.v) \o <<"\"">>
      [] x.t = "list" ->
            <<"[">> \o Join([i \in 1..Len(x.v) |-> JsonDumps(x.v[i])], CommaSpace)
                    \o <<"]">>
      [] x.t = "dict" ->
            <<"{">> \o Join([i \in 1..Len(x.v) |->
                               JsonDumps(VStr(x.v[i][1])) \o ColonSpace
                                 \o JsonDumps(x.v[i][2])], CommaSpace)
                    \o <<"}">>

\* the characters urllib.parse.quote leaves alone: letters, digits, _.-~ and /
QuoteSafe ==
    {"a", "b", "c", "d", "e", "f", "g", "h", "i", "j", "k", "l", "m",
     "n", "o", "p", "q", "r", "s", "t", "u", "v", "w", "x", "y", "z",
     "A", "B", "C", "D", "E", "F", "G", "H", "I", "J", "K", "L", "M",
     "N", "O", "P", "Q", "R", "S", "T", "U", "V", "W", "X", "Y", "Z",
     "0", "1", "2", "3", "4", "5", "6", "7", "8", "9",
     "_", ".", "-", "~", "/"}

\* %XX of the other characters of the model's alphabet
PercentCode(c) ==
    CASE c = " " -> <<"%", "2", "0">>
      [] c = "\t" -> <<"%", "0", "9">>
      [] c = "\n" -> <<"%", "0", "A">>
      [] c = "\"" -> <<"%", "2", "2">>
      [] c = "'" -> <<"%", "2", "7">>
      [] c = "," -> <<"%", "2", "C">>
      [] c = ":" -> <<"%", "3", "A">>
      [] c = "@" -> <<"%", "4", "0">>
      [] c = "[" -> <<"%", "5", "B">>
      [] c = "]" -> <<"%", "5", "D">>
      [] c = "{" -> <<"%", "7", "B">>
      [] c = "}" -> <<"%", "7", "D">>

RECURSIVE UrlQuote(_)
\* urllib.parse.quote(s.encode("utf-8", "surrogatepass"))
UrlQuote(s) ==
    IF s = <<>> THEN <<>>
    ELSE (IF s[1] \in QuoteSafe THEN <<s[1]>> ELSE PercentCode(s[1]))
           \o UrlQuote(Tail(s))

-----------------------------------------------------------------------------
(* Reading JSON text (json.loads as the packet store uses it).  The values *)
(* of the model are null, integers, strings, lists and dicts; a text that  *)
(* holds anything else does not decode.  A parse returns [ok, val, pos],   *)
(* pos the place after the value.                                          *)

Digits == {"0", "1", "2", "3", "4", "5", "6", "7", "8", "9"}
DigitVal(c) == CHOOSE n \in 0..9 : ToString(n) = c
Whitespace == {" ", "\t", "\n", "\r"}

ParseFail == [ok |-> FALSE, val |-> None, pos |-> 0]
Parsed(val, pos) == [ok |-> TRUE, val |-> val, pos |-> pos]

RECURSIVE skip_ws(_, _)
skip_ws(s, i) ==
    IF i <= Len(s) /\ s[i] \in Whitespace THEN skip_ws(s, i + 1) ELSE i

RECURSIVE parse_digits(_, _, _)
parse_digits(s, i, acc) ==
    IF i <= Len(s) /\ s[i] \in Digits
    THEN parse_digits(s, i + 1, acc * 10 + DigitVal(s[i]))
    ELSE Parsed(VInt(acc), i)

\* -?(0|[1-9][0-9]*); a fraction or an exponent makes a float, which the
\* model does not hold
parse_number(s, i) ==
    LET neg == s[i] = "-"
        j == IF neg THEN i + 1 ELSE i
    IN  IF j > Len(s) \/ s[j] \notin Digits THEN ParseFail
        ELSE LET r == IF s[j] = "0" THEN Parsed(VInt(0), j + 1)
                      ELSE parse_digits(s, j, 0)
             IN  IF r.pos <= Len(s) /\ s[r.pos] \in {".", "e", "E"} THEN ParseFail
                 ELSE IF neg THEN Parsed(VInt(0 - r.val.v), r.pos) ELSE r

\* the character a backslash escape stands for
Unescape(c) ==
    CASE c = "n" -> "\n"
      [] c = "t" -> "\t"
      [] OTHER -> c

RECURSIVE parse_chars(_, _, _)
\* the characters of a string up to its closing quote; a raw control
\* character is not allowed inside a string
parse_chars(s, i, acc) ==
    IF i > Len(s) THEN ParseFail
    ELSE IF s[i] = "\"" THEN Parsed(VStr(acc), i + 1)
    ELSE IF s[i] = "\\"
    THEN (IF i + 1 <= Len(s) /\ s[i + 1] \in {"\"", "\\", "/", "n", "t"}
          THEN parse_chars(s, i + 2, Append(acc, Unescape(s[i + 1])))
          ELSE ParseFail)
    ELSE IF s[i] \in {"\n", "\t", "\r"} THEN ParseFail
    ELSE parse_chars(s, i + 1, Append(acc, s[i]))

RECURSIVE parse_value(_, _)
RECURSIVE parse_items(_, _, _, _)
RECURSIVE parse_members(_, _, _, _)

\* after an item: "," and the next item, or "]"
next_item(s, acc, j) ==
    IF j > Len(s) THEN ParseFail
    ELSE IF s[j] = "," THEN parse_items(s, j + 1, acc, FALSE)
    ELSE IF s[j] = "]" THEN Parsed(VList(acc), j + 1)
    ELSE ParseFail

\* r is the parse of an item
after_item(s, acc, r) ==
    IF ~ r.ok THEN ParseFail
    ELSE next_item(s, Append(acc, r.val), skip_ws(s, r.pos))

items_at(s, i0, acc, first) ==
    IF first /\ i0 <= Len(s) /\ s[i0] = "]" THEN Parsed(VList(acc), i0 + 1)
    ELSE after_item(s, acc, parse_value(s, i0))

\* the items of a list, i the place after "[" or after a ","
parse_items(s, i, acc, first) == items_at(s, skip_ws(s, i), acc, first)

\* after a member: "," and the next member, or "}"
next_member(s, d, j) ==
    IF j > Len(s) THEN ParseFail
    ELSE IF s[j] = "," THEN parse_members(s, j + 1, d, FALSE)
    ELSE IF s[j] = "}" THEN Parsed(VDict(d), j + 1)
    ELSE ParseFail

\* r is the parse of the value of key; a key given twice keeps its place
\* and takes the later value
after_member(s, acc, key, r) ==
    IF ~ r.ok THEN ParseFail
    ELSE next_member(s, DictSet(acc, key, r.val), skip_ws(s, r.pos))

colon_at(s, acc, key, c) ==
    IF c > Len(s) \/ s[c] # ":" THEN ParseFail
    ELSE after_member(s, acc, key, parse_value(s, c + 1))

\* k is the parse of the key of a member
after_key(s, acc, k) ==
    IF ~ k.ok THEN ParseFail
    ELSE colon_at(s, acc, k.val.v, skip_ws(s, k.pos))

members_at(s, i0, acc, first) ==
    IF first /\ i0 <= Len(s) /\ s[i0] = "}" THEN Parsed(VDict(acc), i0 + 1)
    ELSE IF i0 > Len(s) \/ s[i0] # "\"" THEN ParseFail
    ELSE after_key(s, acc, parse_chars(s, i0 + 1, <<>>))

\* the members of an object, i the place after "{" or after a ","
parse_members(s, i, acc, first) == members_at(s, skip_ws(s, i), acc, first)

value_at(s, i0) ==
    IF i0 > Len(s) THEN ParseFail
    ELSE CASE s[i0] = "{" -> parse_members(s, i0 + 1, <<>>, TRUE)
           [] s[i0] = "[" -> parse_items(s, i0 + 1, <<>>, TRUE)
           [] s[i0] = "\"" -> parse_chars(s, i0 + 1, <<>>)
           [] s[i0] = "n" ->
                IF i0 + 3 <= Len(s) /\ SubSeq(s, i0, i0 + 3) = <<"n", "u", "l", "l">>
                THEN Parsed(None, i0 + 4) ELSE ParseFail
           [] s[i0] \in Digits \cup {"-"} -> parse_number(s, i0)
           [] OTHER -> ParseFail

parse_value(s, i) == value_at(s, skip_ws(s, i))

\* r is the parse of the whole text: text left over after the value is a
\* decode error
loads_result(s, r) ==
    IF r.ok /\ skip_ws(s, r.pos) > Len(s) THEN [ok |-> TRUE, val |-> r.val]
    ELSE [ok |-> FALSE, val |-> None]

\* json.loads(s): [ok, val]
json_loads(s) == loads_result(s, parse_value(s, 1))

-----------------------------------------------------------------------------
(* myPyJSON, the packet store (module myLockssScripts, modelled from the   *)
(* written specification, section 4.2)                                     *)

\* An input line is [kind, obj]:
\*   "json"  the line is one JSON object literal, obj;
\*   "noisy" free text, then the object literal obj, then free text;
\*   "prose" text that holds no JSON object (obj is None);
\*   "text"  a line given as its text, obj, which the store has yet to read.
JsonLine(obj) == [kind |-> "json", obj |-> obj]
NoisyLine(obj) == [kind |-> "noisy", obj |-> obj]
ProseLine == [kind |-> "prose", obj |-> None]
TextLine(s) == [kind |-> "text", obj |-> VStr(s)]

Noise == <<"n", "o", "i", "s", "e", " ">>
Trailing == <<" ", "e", "n", "d">>

\* the text of a line
LineText(line) ==
    CASE line.kind = "json" -> JsonDumps(line.obj)
      [] line.kind = "noisy" -> Noise \o JsonDumps(line.obj) \o Trailing
      [] line.kind = "prose" -> Noise
      [] line.kind = "text" -> line.obj.v

\* myPyJSON.raw after accept(lines)
RawText(lines) == VStr(Join([i \in 1..Len(lines) |-> LineText(lines[i])], NL))

RECURSIVE SelectSeq2(_, _)
\* the objects of the lines whose kind is in kinds, in order
SelectSeq2(lines, kinds) ==
    IF lines = <<>> THEN <<>>
    ELSE (IF lines[1].kind \in kinds THEN <<lines[1].obj>> ELSE <<>>)
           \o SelectSeq2(Tail(lines), kinds)

RECURSIVE MergeAll(_, _)
\* each parsed object is merged into the running packet, top level only
MergeAll(acc, objs) ==
    IF objs = <<>> THEN acc
    ELSE MergeAll(DictUpdate(acc, objs[1].v), Tail(objs))

RECURSIVE span_end(_, _, _, _)
\* the scan of a span from place i, depth braces open: the place of the
\* brace that closes the span, 0 when the line ends first.  Inside a quoted
\* string braces do not count and a backslash takes the next character.
span_end(s, i, depth, inString) ==
    IF i > Len(s) THEN 0
    ELSE IF ~ inString /\ s[i] = "}" /\ depth = 1 THEN i
    ELSE span_end(s,
                  IF inString /\ s[i] = "\\" THEN i + 2 ELSE i + 1,
                  IF inString THEN depth
                  ELSE IF s[i] = "{" THEN depth + 1
                  ELSE IF s[i] = "}" THEN depth - 1
                  ELSE depth,
                  IF s[i] = "\"" THEN ~ inString ELSE inString)

RECURSIVE first_balanced_span(_, _)

\* the span that opens at place i and closes at place e, when it closes
span_from(s, i, e) ==
    IF e > 0 THEN SubSeq(s, i, e) ELSE first_balanced_span(s, i + 1)

\* the first balanced {...} span of the line at or after place i, <<>>
\* when the line has none
first_balanced_span(s, i) ==
    IF i > Len(s) THEN <<>>
    ELSE IF s[i] = "{" THEN span_from(s, i, span_end(s, i + 1, 1, FALSE))
    ELSE first_balanced_span(s, i + 1)

\* inner is the parse of the first balanced span of a line
screened(inner) == IF inner.ok THEN NoisyLine(inner.val) ELSE ProseLine

\* direct is the parse of the whole line, span its first balanced span
read_text(direct, span) ==
    IF direct.ok /\ IsDict(direct.val) THEN JsonLine(direct.val)
    ELSE IF span = <<>> THEN ProseLine
    ELSE screened(json_loads(span))

\* what the store makes of a line: a line given as text is an object
\* literal when it decodes as one, holds an object when its first balanced
\* span decodes, and is prose otherwise
read_line(line) ==
    IF line.kind # "text" THEN line
    ELSE read_text(json_loads(line.obj.v), first_balanced_span(line.obj.v, 1))

\* accept(lines, screen): [ok, data], read being the lines as the store
\* reads them.  The direct pass parses every line as JSON and fails on the
\* first line that is not; the screen pass takes the embedded object of a
\* noisy line and skips prose.  Either pass fails with a decode error when
\* it yields no object.
accept_read(read, screen) ==
    LET objs == SelectSeq2(read, IF screen THEN {"json", "noisy"} ELSE {"json"})
        ok == /\ objs # <<>>
              /\ screen \/ \A i \in 1..Len(read) : read[i].kind = "json"
    IN  [ok |-> ok, data |-> IF ok THEN MergeAll(<<>>, objs) ELSE <<>>]

accept(lines, screen) ==
    accept_read([i \in 1..Len(lines) |-> read_line(lines[i])], screen)

\* splat: a one-element list is unwrapped to its element
SplatValue(x) == IF IsList(x) /\ Len(x.v) = 1 THEN x.v[1] ELSE x

\* myPyJSON.allData: the accumulated packet, its values splatted when the
\* store was built with splat=True
allData(data, splat) ==
    IF splat THEN [i \in 1..Len(data) |-> <<data[i][1], SplatValue(data[i][2])>>]
    ELSE data

-----------------------------------------------------------------------------
(* ADPNGetJSON: switches and output format *)

\* a switch that was not given (switches.get(...) is None); a given
\* --output is the sequence of its ";"-separated parts
NotGiven == <<>>
\* get_output_format(index) past the last part
NoFormat == "<None>"

default_mime == "text/plain"

get_output_format(sw, index) ==
    LET aSpec == IF sw.output # NotGiven THEN sw.output ELSE <<default_mime>>
    IN  IF index < Len(aSpec) THEN aSpec[index + 1] ELSE NoFormat

\* wants_splat that ignores the switch
wants_splat_never(sw) == FALSE

wants_splat(sw) == ~ sw.nosplat

wants_table(sw) ==
    LET requested_table ==
            \/ get_output_format(sw, 0) = "text/tab-separated-values"
            \/ get_output_format(sw, 1) = "table"
        implies_table ==
            /\ IsNone(sw.key)
            /\ get_output_format(sw, 0) = NoFormat
    IN  implies_table \/ requested_table

wants_printf_output(sw) ==
    get_output_format(sw, 0) = "text/plain" /\ sw.template # NotGiven

wants_json_output(sw) ==
    \/ get_output_format(sw, 0) = "json"
    \/ get_output_format(sw, 0) = "application/json"

is_multiline_output(out) == Len(out) > 1

\* get_output_terminator that always ends the output with a newline
get_output_terminator_always(sw, out) == NL

get_output_terminator(sw, out) ==
    IF wants_table(sw) \/ is_multiline_output(out) THEN NL ELSE <<>>

\* data_keys that forgets the --key values
data_keys_none(sw) == <<>>

\* self.switches.get("key", []): the list of the --key values
data_keys(sw) == sw.key.v

-----------------------------------------------------------------------------
(* ADPNGetJSON: flags and exit code *)

NoFlags == [json_error |-> <<>>, key_error |-> <<>>,
            nothing_found |-> <<>>, output_error |-> <<>>]

add_flag(fl, flag, value) ==
    IF ~ IsNone(value) THEN [fl EXCEPT ![flag] = Append(@, value)] ELSE fl

test_flagged(fl, flag) == Len(fl[flag]) > 0

\* exitcode with the key error ranked above the decode error
exitcode_key_first(fl) ==
    IF test_flagged(fl, "key_error") THEN 1
    ELSE IF test_flagged(fl, "json_error") THEN 2
    ELSE IF test_flagged(fl, "output_error") THEN 254
    ELSE 0

\* the exitcode property of ADPNGetJSON: recomputed from the flags on every
\* read
exitcode(fl) ==
    IF test_flagged(fl, "json_error") THEN 2
    ELSE IF test_flagged(fl, "key_error") THEN 1
    ELSE IF test_flagged(fl, "output_error") THEN 254
    ELSE 0

\* set_exitcode that stores whatever code it is given
set_exitcode_unchecked(old, code) == [ok |-> TRUE, code |-> code]

\* ADPNCommandLineTool.set_exitcode: [ok, code]; a code outside 0..255
\* raises ValueError and stores nothing
set_exitcode(old, code) ==
    IF code >= 0 /\ code <= 255 THEN [ok |-> TRUE, code |-> code]
    ELSE [ok |-> FALSE, code |-> old]

\* ADPNCommandLineTool.plain_text_output
plain_text_output(sw) == sw.output = NotGiven \/ sw.output = <<"text/plain">>

\* ADPNCommandLineTool.json_output: the types of the model that match
\* ^([^/]+/)?(json)(;.*)?$
json_output(sw) == sw.output \in {<<"application/json">>, <<"json">>}

\* switched(key) that never finds the switch
switched_never(sw, key) == FALSE

\* ADPNCommandLineTool.switched(key), for the two flags of execute()
switched(sw, key) == IF key = "help" THEN sw.help ELSE sw.version

\* a line a method printed: prefix, then tag (the bracketed script name or
\* the prolog), then the message; data is the value the message quotes
Printed(by, prefix, tag, message, data) ==
    [by |-> by, prefix |-> prefix, tag |-> tag, message |-> message,
     data |-> data]

\* "[%(cmd)s] "
Bracketed(cmd) == "[" \o cmd \o "] "

\* write_status that always prints to standard error
write_status_stderr(sw, verbose, cmd, message, prolog, is_notice, verbosity) ==
    [printed |-> verbosity <= verbose,
     stream |-> "stderr",
     line |-> Printed("write_status", "", Bracketed(cmd), message, None)]

\* write_status(message, prolog, is_notice, verbosity): whether the line is
\* printed, on which stream, and the line
write_status(sw, verbose, cmd, message, prolog, is_notice, verbosity) ==
    [printed |-> verbosity <= verbose,
     stream |-> IF is_notice /\ ~ plain_text_output(sw) /\ verbosity > 0
                THEN "stderr" ELSE "stdout",
     line |-> IF is_notice
              THEN Printed("write_status", "",
                           IF prolog = NotGiven THEN Bracketed(cmd)
                           ELSE prolog \o " ",
                           message, None)
              ELSE Printed("write_status", "", "", message, None)]

\* what a stream holds after the status w
status_on(stream, lines, w) ==
    IF w.printed /\ w.stream = stream THEN lines \o <<w.line>> ELSE lines

\* write_error(code, message, prefix): [ok, code, line]; the exit code is
\* set first, so a code out of range raises before anything is printed
write_error(old, cmd, code, message, prefix, data) ==
    [ok |-> set_exitcode(old, code).ok,
     code |-> set_exitcode(old, code).code,
     line |-> Printed("write_error", prefix, Bracketed(cmd), message, data)]

-----------------------------------------------------------------------------
(* ADPNGetJSON: rendering.  The methods that write to self.output and      *)
(* self.flags take and return st = [output, flags].                        *)

\* get_output(value, key, pair): the rendered lines of one value
get_output(sw, value, key, pair) ==
    LET display_value ==
            IF \/ get_output_format(sw, 0) = "urlencode"
               \/ get_output_format(sw, 0) = "multipart/form-data"
            THEN UrlQuote(PyStr(value))
            ELSE PyStr(value)
    IN  IF pair THEN << key \o TAB \o display_value >> ELSE << display_value >>

\* add_output(value): get_output always returns a list, which extends the
\* buffer
add_output(sw, st, value) ==
    [st EXCEPT !.output = @ \o get_output(sw, value, <<>>, FALSE)]

\* the characters str.strip() removes, as far as the inputs have them
PyWhitespace == {" ", "\t", "\n", "\r"}

RECURSIVE lstrip_at(_, _)
lstrip_at(s, i) ==
    IF i <= Len(s) /\ s[i] \in PyWhitespace THEN lstrip_at(s, i + 1) ELSE i

RECURSIVE rstrip_at(_, _)
rstrip_at(s, j) ==
    IF j >= 1 /\ s[j] \in PyWhitespace THEN rstrip_at(s, j - 1) ELSE j

py_strip(s) ==
    IF lstrip_at(s, 1) > rstrip_at(s, Len(s)) THEN <<>>
    ELSE SubSeq(s, lstrip_at(s, 1), rstrip_at(s, Len(s)))

\* the digits of an integer literal from place i on: [ok, val]; a single
\* underscore may stand between two digits
RECURSIVE int_digits(_, _, _)
int_digits(s, i, acc) ==
    IF i > Len(s) THEN [ok |-> TRUE, val |-> acc]
    ELSE IF \/ s[i] \in Digits
            \/ /\ s[i] = "_"
               /\ i > 1 /\ i < Len(s)
               /\ s[i - 1] \in Digits /\ s[i + 1] \in Digits
    THEN int_digits(s, i + 1,
                    IF s[i] \in Digits THEN acc * 10 + DigitVal(s[i]) ELSE acc)
    ELSE [ok |-> FALSE, val |-> 0]

\* the unsigned part of an integer literal
int_body(body) ==
    IF body = <<>> THEN [ok |-> FALSE, val |-> 0] ELSE int_digits(body, 1, 0)

\* t is the stripped text
int_signed(t, r) ==
    [ok |-> r.ok, val |-> IF t # <<>> /\ t[1] = "-" THEN - r.val ELSE r.val]

int_stripped(t) ==
    int_signed(t, int_body(IF t # <<>> /\ t[1] \in {"+", "-"} THEN Tail(t)
                           ELSE t))

\* int(s) of a string: [ok, val], not ok when int raises ValueError
py_int(s) == int_stripped(py_strip(s))

\* the outcome of a test: the exception raised, if any, and the answer
Answer(ok) == [raised |-> "", ok |-> ok]
Raises(e) == [raised |-> e, ok |-> FALSE]

\* the place of the first ":" of the text from i on, 0 when it has none
RECURSIVE colon_place(_, _)
colon_place(w, i) ==
    IF i > Len(w) THEN 0
    ELSE IF w[i] = ":" THEN i
    ELSE colon_place(w, i + 1)

\* re.match(r"^[/](.*)[/]$", value), for a value without line breaks
is_regex_value(value) ==
    Len(value) >= 2 /\ value[1] = "/" /\ value[Len(value)] = "/"

\* re.match(pattern, text), for a pattern of literal characters: the text
\* starts with the pattern
re_match(pattern, text) ==
    /\ Len(pattern) <= Len(text)
    /\ SubSeq(text, 1, Len(pattern)) = pattern

\* data_matches(item, key, value): re.match raises TypeError for a field
\* that is not text, int(value) raises ValueError for a value that is not
\* an integer literal
data_matches(item, key, value) ==
    IF ~ IsDict(item) THEN Answer(TRUE)
    ELSE IF is_regex_value(value)
    THEN (IF IsStr(DictGet(item.v, key))
          THEN Answer(re_match(SubSeq(value, 2, Len(value) - 1),
                               DictGet(item.v, key).v))
          ELSE Raises("TypeError"))
    ELSE IF IsStr(DictGet(item.v, key))
    THEN Answer(DictGet(item.v, key).v = value)
    ELSE IF DictGet(item.v, key).t = "int"
    THEN (IF py_int(value).ok
          THEN Answer(DictGet(item.v, key).v = py_int(value).val)
          ELSE Raises("ValueError"))
    ELSE Answer(FALSE)

\* the selected property applied to an item: without --where every item is
\* kept; (key, value) = where.split(":", 1) raises ValueError when the
\* text has no colon
selected(sw, item) ==
    IF sw.where = NotGiven THEN Answer(TRUE)
    ELSE IF colon_place(sw.where, 1) = 0 THEN Raises("ValueError")
    ELSE data_matches(item,
                      SubSeq(sw.where, 1, colon_place(sw.where, 1) - 1),
                      SubSeq(sw.where, colon_place(sw.where, 1) + 1,
                             Len(sw.where)))

RECURSIVE display_data(_, _, _, _, _, _)
RECURSIVE display_data_dict(_, _, _, _, _, _, _)
RECURSIVE display_data_list(_, _, _, _, _, _)
RECURSIVE dict_loop(_, _, _, _, _, _, _, _, _)

\* the for loop of display_data_dict over l_keys, from position i: returns
\* [st, out]; a key missing from tbl raises KeyError, which ends the loop
\* and records the key_error flag; any other exception (st.raised) leaves
\* the method
dict_loop(sw, st, out, tbl, context, parse, l_keys, i, depth) ==
    IF i > Len(l_keys) \/ st.raised # "" THEN [st |-> st, out |-> out]
    ELSE
      LET key == l_keys[i]
          paired == wants_table(sw) \/ Len(l_keys) > 1
      IN  IF ~ HasKey(tbl, key)
          THEN [st |-> [st EXCEPT !.flags = add_flag(@, "key_error", VStr(key))],
                out |-> out]
          ELSE
            LET value == Lookup(tbl, key) IN
            IF wants_json_output(sw)
            THEN dict_loop(sw, st,
                           IF ~ sw.without_key
                           THEN VDict(DictUpdate(out.v, << <<key, value>> >>))
                           ELSE value,
                           tbl, context, parse, l_keys, i + 1, depth)
            ELSE IF Len(l_keys) < 2 /\ IsList(value)
            THEN dict_loop(sw,
                           display_data_list(sw, st, value, context, parse, depth + 1),
                           out, tbl, context, parse, l_keys, i + 1, depth)
            ELSE IF Len(l_keys) < 2 /\ IsDict(value)
            THEN dict_loop(sw,
                           display_data_dict(sw, st, value, context, parse, <<>>,
                                             depth + 1),
                           out, tbl, context, parse, l_keys, i + 1, depth)
            ELSE dict_loop(sw, st,
                           VList(out.v \o get_output(sw, value, key, paired)),
                           tbl, context, parse, l_keys, i + 1, depth)

\* a --template is the sequence of its parts: text, or a %(name)s
\* reference to a key
TemplateText(text) == [ref |-> FALSE, text |-> text]
TemplateKey(name) == [ref |-> TRUE, text |-> name]

RECURSIVE template_loop(_, _, _, _)
\* text_template % data, part by part: a reference to a key that data
\* does not hold raises KeyError
template_loop(text, data, i, result) ==
    IF i > Len(text) THEN Answer(result)
    ELSE IF ~ text[i].ref
    THEN template_loop(text, data, i + 1, result \o text[i].text)
    ELSE IF ~ HasKey(data, text[i].text) THEN Raises("KeyError")
    ELSE template_loop(text, data, i + 1,
                       result \o PyStr(Lookup(data, text[i].text)))

\* display_templated_text(text, table): the packet and the names $n, $t
\* and $json fill the template (no template of the model has a backslash
\* escape)
display_templated_text(text, tbl) ==
    template_loop(text,
                  DictUpdate(tbl, << <<<<"$", "n">>, VStr(NL)>>,
                                     <<<<"$", "t">>, VStr(TAB)>>,
                                     <<<<"$", "j", "s", "o", "n">>,
                                       VStr(JsonDumps(VDict(tbl)))>> >>),
                  1, <<>>)

\* the value of the loop variable key when the for loop of
\* display_data_dict has ended: the first key that tbl does not hold, or
\* the last key
loop_key(tbl, l_keys) ==
    LET absent == {i \in 1..Len(l_keys) : ~ HasKey(tbl, l_keys[i])}
    IN  IF absent = {} THEN l_keys[Len(l_keys)]
        ELSE l_keys[CHOOSE i \in absent : \A j \in absent : i <= j]

\* the printf branch of display_data_dict: the templated text is the
\* output; its KeyError records a key_error flag for the loop variable
printf_output(sw, st, tbl, l_keys) ==
    LET text == display_templated_text(sw.template, tbl)
    IN  IF text.raised = ""
        THEN [st EXCEPT !.output = @ \o << text.ok >>]
        ELSE IF l_keys = <<>> THEN [st EXCEPT !.raised = "UnboundLocalError"]
        ELSE [st EXCEPT !.flags = add_flag(@, "key_error",
                                           VStr(loop_key(tbl, l_keys)))]

\* display_data_dict that puts every pair on a line of its own in table
\* mode too
display_data_dict_lines(sw, st, tbl, context, parse, keys, depth) ==
    LET l_keys == IF Len(keys) = 0 THEN Keys(tbl.v) ELSE keys
        out0 == IF wants_json_output(sw) THEN VDict(<<>>) ELSE VList(<<>>)
        r == dict_loop(sw, st, out0, tbl.v, context, parse, l_keys, 1, depth)
    IN  IF wants_printf_output(sw) \/ r.st.raised # "" THEN r.st
        ELSE IF wants_json_output(sw)
        THEN [r.st EXCEPT !.output = @ \o << JsonDumps(r.out) >>]
        ELSE [r.st EXCEPT !.output = @ \o r.out.v]

\* display_data_dict that writes the selection as str() writes it
display_data_dict_repr(sw, st, tbl, context, parse, keys, depth) ==
    LET l_keys == IF Len(keys) = 0 THEN Keys(tbl.v) ELSE keys
        out0 == IF wants_json_output(sw) THEN VDict(<<>>) ELSE VList(<<>>)
        r == dict_loop(sw, st, out0, tbl.v, context, parse, l_keys, 1, depth)
    IN  IF wants_printf_output(sw) \/ r.st.raised # "" THEN r.st
        ELSE IF wants_json_output(sw)
        THEN [r.st EXCEPT !.output = @ \o << PyStr(r.out) >>]
        ELSE IF wants_table(sw) \/ IsList(context)
        THEN [r.st EXCEPT !.output = @ \o << Join(r.out.v, TAB) >>]
        ELSE [r.st EXCEPT !.output = @ \o r.out.v]

\* display_data_dict(table, context, parse, keys, depth); no command line
\* of the model gives an indent
display_data_dict(sw, st, tbl, context, parse, keys, depth) ==
    LET l_keys == IF Len(keys) = 0 THEN Keys(tbl.v) ELSE keys
        out0 == IF wants_json_output(sw) THEN VDict(<<>>) ELSE VList(<<>>)
        r == dict_loop(sw, st, out0, tbl.v, context, parse, l_keys, 1, depth)
    IN  IF r.st.raised # "" THEN r.st
        ELSE IF wants_printf_output(sw)
        THEN printf_output(sw, r.st, tbl.v, l_keys)
        ELSE IF wants_json_output(sw)
        THEN [r.st EXCEPT !.output = @ \o << JsonDumps(r.out) >>]
        ELSE IF wants_table(sw) \/ IsList(context)
        THEN [r.st EXCEPT !.output = @ \o << Join(r.out.v, TAB) >>]
        ELSE [r.st EXCEPT !.output = @ \o r.out.v]

RECURSIVE list_loop(_, _, _, _, _, _, _)
\* the for loop of display_data_list over the items, from position i; an
\* exception of the selected test leaves the loop (st.raised); an
\* inner list is tab-joined (its items are text in every packet of the
\* model)
list_loop(sw, st, tbl, context, parse, i, depth) ==
    IF i > Len(tbl.v) \/ st.raised # "" THEN st
    ELSE
      LET item == tbl.v[i]
          st1 == IF selected(sw, item).raised # ""
                 THEN [st EXCEPT !.raised = selected(sw, item).raised]
                 ELSE IF ~ selected(sw, item).ok THEN st
                 ELSE IF parse
                 THEN display_data(sw, st, item, context, FALSE, depth + 1)
                 ELSE IF IsList(item)
                 THEN [st EXCEPT !.output =
                          @ \o << Join([j \in 1..Len(item.v) |-> item.v[j].v], TAB) >>]
                 ELSE add_output(sw, st, item)
      IN  list_loop(sw, st1, tbl, context, parse, i + 1, depth)

display_data_list(sw, st, tbl, context, parse, depth) ==
    list_loop(sw, st, tbl, context, parse, 1, depth)

display_data(sw, st, tbl, context, parse, depth) ==
    IF IsDict(tbl)
    THEN display_data_dict(sw, st, tbl, context, parse, data_keys(sw), depth + 1)
    ELSE IF IsList(tbl)
    THEN display_data_list(sw, st, tbl, context, parse, depth + 1)
    ELSE IF ~ IsNone(tbl) \/ depth > 1
    THEN add_output(sw, st, tbl)
    ELSE st

\* format_line(line): no command line of the model gives --prolog
format_line(sw, line) == IF sw.epilog THEN line \o NL ELSE line

\* ADPNDataConverter.write_output(template=format_line, end=end): what the
\* print writes; nothing is printed for an empty buffer
write_output(sw, out, end) ==
    LET fmt == [i \in 1..Len(out) |-> format_line(sw, out[i])]
    IN  IF Len(fmt) > 0 THEN Join(fmt, NL) \o end ELSE <<>>

-----------------------------------------------------------------------------
(* The inputs of the model *)

kA == <<"a">>
kB == <<"b">>
kC == <<"c">>
kMissing == <<"m">>

\* {"a": 1, "b": 2}
Obj1 == VDict(<< <<kA, VInt(1)>>, <<kB, VInt(2)>> >>)
\* {"a": [7], "c": "x y"}
Obj2 == VDict(<< <<kA, VList(<<VInt(7)>>)>>, <<kC, VStr(<<"x", " ", "y">>)>> >>)
\* {"b": {"c": 5}, "a": [1, 2]}
Obj3 == VDict(<< <<kB, VDict(<< <<kC, VInt(5)>> >>)>>,
                 <<kA, VList(<<VInt(1), VInt(2)>>)>> >>)
\* {"b": {"a": 3}, "c": []}
Obj4 == VDict(<< <<kB, VDict(<< <<kA, VInt(3)>> >>)>>, <<kC, VList(<<>>)>> >>)

QueryLines ==
    {JsonLine(Obj1), JsonLine(Obj2), JsonLine(Obj3), JsonLine(Obj4),
     NoisyLine(Obj1), ProseLine}

\* the sequences over S of length at most n
SeqsUpTo(S, n) == UNION {[1..k -> S] : k \in 0..n}

KeyLists ==
    {<<>>, <<kA>>, <<kB>>, <<kMissing>>, <<kA, kB>>, <<kB, kA>>,
     <<kA, kMissing, kB>>}

OutputSwitches ==
    {NotGiven, <<"text/plain">>, <<"application/json">>,
     <<"text/tab-separated-values">>, <<"urlencode">>}

\* The command lines of the model.  "key": [] is the default of the
\* script, so key is a list even when no --key is given.
Switches(keys, out, nosplat, parse, epilog, quiet) ==
    [key |-> VList(keys), output |-> out, nosplat |-> nosplat,
     parse |-> parse, epilog |-> epilog, quiet |-> quiet,
     without_key |-> FALSE, template |-> NotGiven,
     help |-> FALSE, version |-> FALSE, where |-> NotGiven]

SwitchDomain ==
    {Switches(k, o, n, FALSE, FALSE, FALSE) :
        k \in KeyLists, o \in OutputSwitches, n \in BOOLEAN}
    \cup {Switches(k, o, FALSE, TRUE, FALSE, FALSE) :
        k \in KeyLists, o \in OutputSwitches}
    \cup {Switches(k, o, FALSE, FALSE, TRUE, q) :
        k \in {<<kA>>, <<kA, kB>>}, o \in OutputSwitches, q \in BOOLEAN}

-----------------------------------------------------------------------------
(* ADPNGetJSON.execute, step by step *)

\* no call of the pipeline helper yet
NoCall ==
    [op |-> "none", key |-> None, source |-> None, raised |-> FALSE,
     before |-> <<>>, piped |-> None, result |-> None]

\* the pipeline helper is idle in the specifications of the query tool
PipeIdle ==
    /\ stream_in = <<>>
    /\ piped = FALSE
    /\ conditional = FALSE
    /\ pipelines = None
    /\ pipeData = <<>>
    /\ cli = <<>>
    /\ defaultsFile = <<>>
    /\ builtin = <<>>
    /\ optTable = <<>>
    /\ call = NoCall

\* no exception has left the run
NoException == ""

\* nothing of the standard input was read
NoReads == [offset |-> 0, reads |-> 0]

\* a read of the stream to its end: the lines (of n) that were left
read_all(r, n) == [offset |-> n, reads |-> r.reads + 1]

\* os.path.basename of the two scripts
JsonScript == "adpn-json.py"
PackageScript == "adpn-do-package.py"

\* the query tool packages nothing
NoPackage == [fault |-> "none", code |-> 0]

\* after __init__: no output, no flag, exit code 0; neither script sets
\* debug and the query tool does not set verbose, so both levels are 0
QueryFresh ==
    /\ jsonRaw = None
    /\ jsonData = <<>>
    /\ table = None
    /\ output = <<>>
    /\ flags = NoFlags
    /\ stdout = <<>>
    /\ stdoutEnd = <<>>
    /\ stderr = <<>>
    /\ _exitcode = 0
    /\ exitStatus = -1
    /\ accepts = <<>>
    /\ exc = NoException
    /\ scriptname = JsonScript
    /\ _verbose = 0
    /\ _debug = 0
    /\ package = NoPackage
    /\ args = <<>>
    /\ reader = NoReads

Init ==
    /\ switches \in SwitchDomain
    /\ stdin \in SeqsUpTo(QueryLines, MaxLines)
    /\ pc = "start"
    /\ QueryFresh
    /\ PipeIdle

\* get_json_input that hands only the first line to the store
get_json_input_first_line(sw, lines) ==
    LET first == IF lines = <<>> THEN lines ELSE <<lines[1]>>
        direct == accept(first, FALSE)
        r == IF direct.ok THEN direct ELSE accept(first, TRUE)
    IN  [ok |-> r.ok, data |-> r.data,
         accepts |-> IF direct.ok THEN <<FALSE>> ELSE <<FALSE, TRUE>>,
         table |-> IF r.ok THEN VDict(allData(r.data, wants_splat(sw))) ELSE None]

\* get_json_input whose handler asks for a second direct pass
get_json_input_no_screen(sw, lines) ==
    LET direct == accept(lines, FALSE)
    IN  [ok |-> direct.ok, data |-> direct.data,
         accepts |-> IF direct.ok THEN <<FALSE>> ELSE <<FALSE, FALSE>>,
         table |-> IF direct.ok THEN VDict(allData(direct.data, wants_splat(sw)))
                   ELSE None]

\* get_json_input that gives up when the direct pass fails
get_json_input_direct_only(sw, lines) ==
    LET r == accept(lines, FALSE)
    IN  [ok |-> r.ok, data |-> r.data, accepts |-> <<FALSE>>,
         table |-> IF r.ok THEN VDict(allData(r.data, wants_splat(sw))) ELSE None]

\* get_json_input(): the direct pass, and the screen pass when the direct
\* pass raised a decode error; [ok, data, accepts, table], accepts the
\* screen argument of each call of accept made; table is the packet
\* before the --key+ update and the --into wrap.
get_json_input(sw, lines) ==
    LET direct == accept(lines, FALSE)
        r == IF direct.ok THEN direct ELSE accept(lines, TRUE)
    IN  [ok |-> r.ok, data |-> r.data,
         accepts |-> IF direct.ok THEN <<FALSE>> ELSE <<FALSE, TRUE>>,
         table |-> IF r.ok THEN VDict(allData(r.data, wants_splat(sw))) ELSE None]

\* execute(): table = self.get_json_input(); a decode error of both passes
\* is caught by execute, which records the json_error flag.  After a pass
\* that accepted the input, self.json.select_where(self.selected) reads the
\* selected property, which raises ValueError for a --where without a
\* colon; the store keeps the merged object as it is.
\* self.switches.get("value", []): the list of the --value values
data_values(sw) == IF "value" \in DOMAIN sw THEN sw.value ELSE <<>>

\* execute: switched('key') and switched('value', just_present=True); both
\* switches are lists, given when not empty
wants_keyvalue(sw) == sw.key.v # <<>> /\ data_values(sw) # <<>>

\* self.switches.get(name): None for a switch that was not given
switch_get(sw, name) == IF name \in DOMAIN sw THEN sw[name] ELSE None

\* old_value + new_value of Python: text with text and list with list are
\* joined, numbers are added, anything else raises TypeError
py_add(a, b) ==
    IF IsStr(a) /\ IsStr(b) THEN Answer(VStr(a.v \o b.v))
    ELSE IF IsList(a) /\ IsList(b) THEN Answer(VList(a.v \o b.v))
    ELSE IF a.t = "int" /\ b.t = "int" THEN Answer(VInt(a.v + b.v))
    ELSE Raises("TypeError")

\* get_json_input, lines 464-482: the --key+ update of the parsed packet
key_update(sw, tbl) ==
    IF IsNone(switch_get(sw, "key+")) \/ switch_get(sw, "key+").v = <<>>
    THEN Answer(tbl)
    ELSE
      LET key == switch_get(sw, "key+").v
          plus == switch_get(sw, "value+")
          old_value == IF IsNone(plus) THEN None ELSE DictGet(tbl.v, key)
          new_value == IF IsNone(plus) THEN switch_get(sw, "value:") ELSE plus
          value == IF IsNone(old_value) THEN Answer(new_value)
                   ELSE IF IsList(old_value) /\ ~ IsList(new_value)
                   THEN Answer(VList(Append(old_value.v, new_value)))
                   ELSE py_add(old_value, new_value)
      IN  IF value.raised # "" THEN value
          ELSE Answer(VDict(DictSet(tbl.v, key, value.ok)))

\* get_json_input, lines 484-486: the --into wrap
into_wrap(sw, tbl) ==
    IF IsNone(switch_get(sw, "into")) \/ switch_get(sw, "into").v = <<>>
    THEN tbl
    ELSE VDict(<< <<switch_get(sw, "into").v, tbl>> >>)

\* get_json_input() on the lines lineInput that fileinput.input() gave
JsonInput(lineInput) ==
    LET r == get_json_input(switches, lineInput)
        u == IF r.ok THEN key_update(switches, r.table) ELSE Answer(None)
        e == IF ~ r.ok THEN ""
             ELSE IF selected(switches, None).raised # ""
             THEN selected(switches, None).raised
             ELSE u.raised
    IN
      /\ jsonRaw' = RawText(lineInput)
      /\ jsonData' = r.data
      /\ table' = IF e = "" /\ r.ok THEN into_wrap(switches, u.ok)
                  ELSE IF e = "" THEN r.table ELSE None
      /\ accepts' = accepts \o r.accepts
      /\ exc' = e
      /\ exitStatus' = IF e = "" THEN exitStatus ELSE 1
      /\ IF e # ""
         THEN /\ pc' = "aborted"
              /\ flags' = flags
         ELSE IF r.ok
         THEN /\ pc' = "input"
              /\ flags' = flags
         ELSE /\ pc' = "written"
              /\ flags' = add_flag(flags, "json_error", RawText(lineInput))

GetJsonInput ==
    /\ pc = "start"
    /\ scriptname = JsonScript
    /\ ~ switched(switches, "help") /\ ~ switched(switches, "version")
    /\ ~ wants_keyvalue(switches)
    /\ JsonInput(stdin)
    /\ reader' = read_all(reader, Len(stdin))
    /\ UNCHANGED <<switches, stdin, output, stdout, stdoutEnd, stderr,
                   _exitcode, pipeVars, toolRest>>

\* execute(): self.display_data(table, table, self.switches.get('parse'));
\* execute catches JSONDecodeError only, so an exception of the where
\* filter ends the script with a traceback and status 1
DisplayData ==
    /\ pc = "input"
    /\ LET st == display_data(switches,
                              [output |-> output, flags |-> flags, raised |-> ""],
                              table, table, switches.parse, 0) IN
         /\ output' = st.output
         /\ flags' = st.flags
         /\ exc' = st.raised
         /\ pc' = IF st.raised = "" THEN "displayed" ELSE "aborted"
         /\ exitStatus' = IF st.raised = "" THEN exitStatus ELSE 1
    /\ UNCHANGED <<switches, stdin, jsonRaw, jsonData, table, stdout, stdoutEnd,
                   stderr, _exitcode, accepts, pipeVars, toolVars>>

\* execute(): oData.write_output(template=..., end=self.get_output_terminator())
WriteOutput ==
    /\ pc = "displayed"
    /\ stdoutEnd' = get_output_terminator(switches, output)
    /\ stdout' = stdout \o write_output(switches, output,
                                        get_output_terminator(switches, output))
    /\ pc' = "written"
    /\ UNCHANGED <<switches, stdin, jsonRaw, jsonData, table, output, flags,
                   stderr, _exitcode, exitStatus, accepts, exc, pipeVars, toolVars>>

JsonErrorMessage ==
    "JSON encoding error. Could not extract data or key-value pairs from the provided data: "

\* execute(): every json_error is reported with write_error(2, ...) unless
\* --quiet was given
ReportErrors ==
    /\ pc = "written"
    /\ IF ~ switches.quiet /\ flags.json_error # <<>>
       THEN /\ stderr' = stderr \o
                    [i \in 1..Len(flags.json_error) |->
                        write_error(_exitcode, scriptname, 2, JsonErrorMessage,
                                    "", flags.json_error[i]).line]
            /\ _exitcode' = write_error(_exitcode, scriptname, 2,
                                        JsonErrorMessage, "", None).code
       ELSE UNCHANGED <<stderr, _exitcode>>
    /\ pc' = "reported"
    /\ UNCHANGED <<switches, stdin, jsonRaw, jsonData, table, output, flags,
                   stdout, stdoutEnd, exitStatus, accepts, exc, pipeVars, toolVars>>

\* exit(): sys.exit(self.exitcode), which reads the exitcode property
Exit ==
    /\ pc = "reported"
    /\ _exitcode' = exitcode(flags)
    /\ exitStatus' = exitcode(flags)
    /\ pc' = "done"
    /\ UNCHANGED <<switches, stdin, jsonRaw, jsonData, table, output, flags,
                   stdout, stdoutEnd, stderr, accepts, exc, pipeVars, toolVars>>

Next ==
    \/ GetJsonInput
    \/ DisplayData
    \/ WriteOutput
    \/ ReportErrors
    \/ Exit

Spec == Init /\ [][Next]_vars

-----------------------------------------------------------------------------
(* ADPNScriptPipeline *)

EmptyLine == [kind |-> "empty", obj |-> None]

RECURSIVE NonEmptyLines(_)
\* [ line for line in re.split(r'[\r\n]+', text) if line ]
NonEmptyLines(lines) ==
    IF lines = <<>> THEN <<>>
    ELSE (IF lines[1].kind = "empty" THEN <<>> ELSE <<lines[1]>>)
           \o NonEmptyLines(Tail(lines))

\* the pipelines property that reads the stream of a conditional pipeline
\* whatever the stream is
pipelines_read_always(pl, isPiped, isConditional, stream) ==
    IF IsNone(pl) THEN VList(NonEmptyLines(stream)) ELSE pl

\* the pipelines property: the stream is read once, and only when it is
\* piped or the pipeline is not conditional
pipelines_read(pl, isPiped, isConditional, stream) ==
    IF IsNone(pl)
    THEN (IF isPiped \/ ~ isConditional THEN VList(NonEmptyLines(stream)) ELSE None)
    ELSE pl

\* the pipelines property that reads the stream whatever it holds already
reads_stream_again(pl, isPiped, isConditional) == isPiped \/ ~ isConditional

\* the pipelines property calls self._stream_in.read()
reads_stream(pl, isPiped, isConditional) ==
    IsNone(pl) /\ (isPiped \/ ~ isConditional)

\* re.match(r"^[@](.*)$", key): [matched, name]; "." stops at a newline and
\* "$" also matches before one final newline
at_match(key) ==
    LET rest == Tail(key)
        body == IF rest # <<>> /\ rest[Len(rest)] = "\n"
                THEN SubSeq(rest, 1, Len(rest) - 1) ELSE rest
    IN  IF key # <<>> /\ key[1] = "@" /\ "\n" \notin Range(body)
        THEN [matched |-> TRUE, name |-> body]
        ELSE [matched |-> FALSE, name |-> <<>>]

\* len(pair) == 2 and (key, value) = pair, for a pair that is a list or a
\* str (every item of a parameters list of the model is one of the two)
pair_of(pair) ==
    IF IsList(pair) /\ Len(pair.v) = 2
    THEN [ok |-> TRUE, key |-> pair.v[1], value |-> pair.v[2]]
    ELSE IF IsStr(pair) /\ Len(pair.v) = 2
    THEN [ok |-> TRUE, key |-> VStr(<<pair.v[1]>>), value |-> VStr(<<pair.v[2]>>)]
    ELSE [ok |-> FALSE, key |-> None, value |-> None]

RECURSIVE scan_parameters(_, _, _)
\* the for loop over the parameters: every pair named name overwrites the
\* result, so the last one stands
scan_parameters(params, name, result) ==
    IF params = <<>> THEN result
    ELSE LET p == pair_of(params[1]) IN
         scan_parameters(Tail(params), name,
                         IF p.ok /\ p.key = VStr(name) THEN p.value ELSE result)

kParameters == <<"p", "a", "r", "a", "m", "e", "t", "e", "r", "s">>

\* lookup_data that compares the pair names with the key, "@" included
lookup_data_no_strip(all, key) ==
    IF IsNone(key) THEN VDict(all)
    ELSE LET result == DictGet(all, key.v)
             m == at_match(key.v)
         IN  IF IsList(DictGet(all, kParameters)) /\ m.matched
             THEN scan_parameters(DictGet(all, kParameters).v, key.v, result)
             ELSE result

\* the lookup of get_data in the packet all: key is None or VStr(text)
lookup_data(all, key) ==
    IF IsNone(key) THEN VDict(all)
    ELSE LET result == DictGet(all, key.v)
             m == at_match(key.v)
         IN  IF IsList(DictGet(all, kParameters)) /\ m.matched
             THEN scan_parameters(DictGet(all, kParameters).v, m.name, result)
             ELSE result

\* get_data(key), given the value of the pipelines property: [raised,
\* result, data].  The helper's store is myPyJSON() with its defaults, so
\* allData is splatted; accept raises the decode error of the direct pass.
get_data(pl, key) ==
    IF IsNone(pl) THEN [raised |-> FALSE, result |-> None, data |-> <<>>]
    ELSE LET r == accept(pl.v, FALSE) IN
         IF ~ r.ok THEN [raised |-> TRUE, result |-> None, data |-> <<>>]
         ELSE [raised |-> FALSE, data |-> r.data,
               result |-> lookup_data(allData(r.data, TRUE), key)]

\* backfilled that lets the piped value replace a value already set
backfilled_overwrite(tbl, key, value) ==
    [table |-> tbl, called |-> TRUE,
     result |-> IF ~ IsNone(value) THEN DictSet(tbl, key, value) ELSE tbl]

\* backfilled that fills the mapping passed in instead of a copy
backfilled_inplace(tbl, key, value) ==
    LET unset == IsNone(DictGet(tbl, key))
        result == IF unset /\ ~ IsNone(value) THEN DictSet(tbl, key, value) ELSE tbl
    IN  [table |-> result, called |-> unset, result |-> result]

\* backfilled(table, key, data_source), where value is what
\* get_data(data_source) returns: [table, called, result], the mapping
\* passed in as the call leaves it, whether get_data was called, and the
\* mapping returned
backfilled(tbl, key, value) ==
    LET unset == IsNone(DictGet(tbl, key))
    IN  [table |-> tbl, called |-> unset,
         result |-> IF unset /\ ~ IsNone(value) THEN DictSet(tbl, key, value)
                    ELSE tbl]

\* myPyCommandLine.parse() (module myLockssScripts, modelled from the
\* written specification, sections 3 and 4.1): every switch the script
\* defines takes its command-line value, else its value in the defaults
\* file, else its built-in default
resolve(argv, file, defaults) ==
    [i \in 1..Len(defaults) |->
        LET name == defaults[i][1] IN
        <<name, IF HasKey(argv, name) THEN Lookup(argv, name)
                ELSE IF HasKey(file, name) THEN Lookup(file, name)
                ELSE defaults[i][2]>>]

-----------------------------------------------------------------------------
(* The pipeline helper at work *)

kF == <<"f">>
kG == <<"g">>
kAtF == <<"@", "f">>
kAtG == <<"@", "g">>
kAtZ == <<"@", "z">>
kLocal == <<"l", "o", "c", "a", "l">>
kRemote == <<"r", "e", "m", "o", "t", "e">>
kTitle == <<"t", "i", "t", "l", "e">>

Pair(n, v) == VList(<<VStr(n), VStr(v)>>)

\* {"a": "pa", "local": "pl", "parameters": [["f", "pf"], ["g", "pg"]]}
Packet1 ==
    VDict(<< <<kA, VStr(<<"p", "a">>)>>, <<kLocal, VStr(<<"p", "l">>)>>,
             <<kParameters, VList(<<Pair(kF, <<"p", "f">>), Pair(kG, <<"p", "g">>)>>)>> >>)
\* {"@f": "lit", "parameters": [["f", "p1"], ["g", "pg"], ["f", "p2"]]}
Packet2 ==
    VDict(<< <<kAtF, VStr(<<"l", "i", "t">>)>>,
             <<kParameters, VList(<<Pair(kF, <<"p", "1">>), Pair(kG, <<"p", "g">>),
                                    Pair(kF, <<"p", "2">>)>>)>> >>)
\* {"title": "pt", "parameters": [["f", "pf"]]}
Packet3 ==
    VDict(<< <<kTitle, VStr(<<"p", "t">>)>>,
             <<kParameters, VList(<<Pair(kF, <<"p", "f">>)>>)>> >>)

PipeLines == {JsonLine(Packet1), JsonLine(Packet2), JsonLine(Packet3), EmptyLine}

\* the keys asked of get_data: None asks for the whole packet
DataKeys == {None, VStr(kA), VStr(kLocal), VStr(kAtF), VStr(kAtG), VStr(kAtZ)}

\* the options backfilled, and the packet keys they are filled from
OptionKeys == {kLocal, kRemote, kTitle}
DataSources == {VStr(kLocal), VStr(kAtF), VStr(kTitle)}

\* the built-in defaults name every switch of the script; a switch given
\* on the command line or in the defaults file has a value
BuiltinDefaults ==
    {<< <<kLocal, d>>, <<kRemote, VStr(<<"d", "r">>)>> >> :
        d \in {None, VStr(<<"d", "l">>)}}
CommandLines == {<<>>, << <<kLocal, VStr(<<"c", "l">>)>> >>}
DefaultsFiles == {<<>>, << <<kLocal, VStr(<<"f", "l">>)>> >>}

\* the query tool is idle in the specification of the pipeline helper
QueryIdle ==
    /\ switches = Switches(<<>>, NotGiven, FALSE, FALSE, FALSE, FALSE)
    /\ stdin = <<>>
    /\ pc = "idle"
    /\ QueryFresh

InitPipeline ==
    /\ stream_in \in SeqsUpTo(PipeLines, MaxLines)
    /\ piped \in BOOLEAN
    /\ conditional \in BOOLEAN
    /\ pipelines = None
    /\ pipeData = <<>>
    /\ cli \in CommandLines
    /\ defaultsFile \in DefaultsFiles
    /\ builtin \in BuiltinDefaults
    /\ optTable = resolve(cli, defaultsFile, builtin)
    /\ call = NoCall
    /\ QueryIdle

\* a call of get_data(key); a decode error leaves the call by exception
GetData(key) ==
    /\ LET pl == pipelines_read(pipelines, piped, conditional, stream_in)
           r == get_data(pl, key)
       IN  /\ pipelines' = pl
           /\ pipeData' = IF IsNone(pl) \/ r.raised THEN pipeData ELSE r.data
           /\ call' = [op |-> "get_data", key |-> key, source |-> None,
                       raised |-> r.raised, before |-> optTable, piped |-> None,
                       result |-> r.result]
    /\ reader' = IF reads_stream(pipelines, piped, conditional)
                  THEN read_all(reader, Len(stream_in)) ELSE reader
    /\ UNCHANGED <<stream_in, piped, conditional, cli, defaultsFile, builtin,
                   optTable, queryVars, toolRest>>

\* a call of backfilled(self.switches, key, data_source): get_data reads
\* the stream when it is called; its decode error leaves backfilled by
\* exception
Backfilled(key, data_source) ==
    /\ LET pl == pipelines_read(pipelines, piped, conditional, stream_in)
           r == get_data(pl, data_source)
           b == backfilled(optTable, key, r.result)
           raised == b.called /\ r.raised
       IN  /\ pipelines' = IF b.called THEN pl ELSE pipelines
           /\ pipeData' = IF b.called /\ ~ IsNone(pl) /\ ~ r.raised
                          THEN r.data ELSE pipeData
           /\ optTable' = IF raised THEN optTable ELSE b.table
           /\ call' = [op |-> "backfilled", key |-> VStr(key),
                       source |-> data_source, raised |-> raised,
                       before |-> optTable,
                       piped |-> IF b.called THEN r.result ELSE None,
                       result |-> IF raised THEN None ELSE VDict(b.result)]
    /\ reader' = IF /\ backfilled(optTable, key, None).called
                     /\ reads_stream(pipelines, piped, conditional)
                  THEN read_all(reader, Len(stream_in)) ELSE reader
    /\ UNCHANGED <<stream_in, piped, conditional, cli, defaultsFile, builtin,
                   queryVars, toolRest>>

NextPipeline ==
    \/ \E key \in DataKeys : GetData(key)
    \/ \E key \in OptionKeys, data_source \in DataSources :
          Backfilled(key, data_source)

SpecPipeline == InitPipeline /\ [][NextPipeline]_vars

-----------------------------------------------------------------------------
(* The query tool piped into a next stage: the pipeline helper of the next *)
(* stage reads what the query tool printed                                 *)

kK == <<"k">>

\* {"a": [["x"]], "b": [[1, 2]]}
Obj5 == VDict(<< <<kA, VList(<<VList(<<VStr(<<"x">>)>>)>>)>>,
                 <<kB, VList(<<VList(<<VInt(1), VInt(2)>>)>>)>> >>)
\* {"k": "}{\"\n", "c": null, "b": -12, "a": {"k": [{}]}}
Obj6 == VDict(<< <<kK, VStr(<<"}", "{", "\"", "\n">>)>>, <<kC, None>>,
                 <<kB, VInt(0 - 12)>>,
                 <<kA, VDict(<< <<kK, VList(<<VDict(<<>>)>>)>> >>)>> >>)

RoundTripLines ==
    {JsonLine(Obj1), JsonLine(Obj2), JsonLine(Obj3), JsonLine(Obj4),
     JsonLine(Obj5), JsonLine(Obj6), NoisyLine(Obj1), ProseLine}

RECURSIVE split_lines(_, _)
\* the text cut at its line breaks; cur is the line being read
split_lines(s, cur) ==
    IF s = <<>> THEN <<cur>>
    ELSE IF s[1] \in {"\n", "\r"} THEN <<cur>> \o split_lines(Tail(s), <<>>)
    ELSE split_lines(Tail(s), Append(cur, s[1]))

\* a stream that holds text, as the lines the pipeline helper will read
StreamLines(text) ==
    LET parts == split_lines(text, <<>>)
    IN  [i \in 1..Len(parts) |->
            IF parts[i] = <<>> THEN EmptyLine ELSE TextLine(parts[i])]

\* the query tool asked for the whole packet as application/json, every
\* other switch at its default
InitRoundTrip ==
    /\ switches = Switches(<<>>, <<"application/json">>, FALSE, FALSE, FALSE, FALSE)
    /\ stdin \in SeqsUpTo(RoundTripLines, MaxLines)
    /\ pc = "start"
    /\ QueryFresh
    /\ PipeIdle

\* the query tool has ended; its standard output is the input stream of
\* the next stage
PipeOutput ==
    /\ pc = "done"
    /\ stream_in' = StreamLines(stdout)
    /\ piped' = TRUE
    /\ pc' = "piped"
    /\ UNCHANGED <<switches, stdin, jsonRaw, jsonData, table, output, flags,
                   stdout, stdoutEnd, stderr, _exitcode, exitStatus, accepts,
                   exc, conditional, pipelines, pipeData, cli, defaultsFile,
                   builtin, optTable, call, toolRest>>
    /\ reader' = NoReads

\* the next stage asks its pipeline helper for the whole packet
NextStage ==
    /\ pc = "piped"
    /\ GetData(None)

NextRoundTrip ==
    \/ GetJsonInput
    \/ DisplayData
    \/ WriteOutput
    \/ ReportErrors
    \/ Exit
    \/ PipeOutput
    \/ NextStage

SpecRoundTrip == InitRoundTrip /\ [][NextRoundTrip]_vars

-----------------------------------------------------------------------------
(* The query tool reading noisy text: the input lines are given as text,   *)
(* which the store scans                                                   *)

\* {"k":1}
TextK1 == <<"{", "\"", "k", "\"", ":", "1", "}">>
\* {"b":2}
TextB2 == <<"{", "\"", "b", "\"", ":", "2", "}">>
\* {nope}
TextNope == <<"{", "n", "o", "p", "e", "}">>

\* noise {"k":1} end
ScreenNoisy == TextLine(Noise \o TextK1 \o Trailing)
\* {"k":{"b":"}{"}} : a nested object, braces inside a string
TextNested ==
    <<"{", "\"", "k", "\"", ":", "{", "\"", "b", "\"", ":", "\"", "}", "{",
      "\"", "}", "}">>
ObjNested == VDict(<< <<kK, VDict(<< <<kB, VStr(<<"}", "{">>)>> >>)>> >>)

\* noise {"k":{"b":"}{"}} end
ScreenNested == TextLine(Noise \o TextNested \o Trailing)
\* noise {"k":1 : the brace never closes
ScreenOpen == TextLine(Noise \o SubSeq(TextK1, 1, 6))
\* noise {nope} end : the span is balanced and is not JSON
ScreenNope == TextLine(Noise \o TextNope \o Trailing)
\* {"k":1} {"b":2} : two spans
ScreenTwo == TextLine(TextK1 \o <<" ">> \o TextB2)
\* {nope} {"k":1} : the first span is not JSON, the second is
ScreenLate == TextLine(TextNope \o <<" ">> \o TextK1)
\* {"b":2} : an object literal and nothing else
ScreenPlain == TextLine(TextB2)

ScreenLines ==
    {ScreenNoisy, ScreenNested, ScreenOpen, ScreenNope, ScreenTwo, ScreenLate,
     ScreenPlain}

InitScreen ==
    /\ switches \in {Switches(k, NotGiven, FALSE, FALSE, FALSE, FALSE) :
                        k \in {<<>>, <<kK>>}}
    /\ stdin \in SeqsUpTo(ScreenLines, MaxLines)
    /\ pc = "start"
    /\ QueryFresh
    /\ PipeIdle

SpecScreen == InitScreen /\ [][Next]_vars

-----------------------------------------------------------------------------
(* The flags of ADPNGetJSON on their own: add_flag called in any order     *)
(* during a pass, then the exit                                            *)

FlagNames == {"json_error", "key_error", "nothing_found", "output_error"}
FlagValues == {None, VStr(kA), VStr(kB)}

FlagCount == Len(flags.json_error) + Len(flags.key_error)
               + Len(flags.nothing_found) + Len(flags.output_error)

InitFlags ==
    /\ switches = Switches(<<>>, NotGiven, FALSE, FALSE, FALSE, FALSE)
    /\ stdin = <<>>
    /\ pc = "pass"
    /\ QueryFresh
    /\ PipeIdle

\* a call of add_flag(flag, value) during the pass
AddFlag(flag, value) ==
    /\ pc = "pass"
    /\ FlagCount < MaxFlags
    /\ flags' = add_flag(flags, flag, value)
    /\ UNCHANGED <<switches, stdin, pc, jsonRaw, jsonData, table, output, stdout,
                   stdoutEnd, stderr, _exitcode, exitStatus, accepts, exc,
                   pipeVars, toolVars>>

\* the pass ends; the errors are reported next
EndPass ==
    /\ pc = "pass"
    /\ pc' = "written"
    /\ UNCHANGED <<switches, stdin, jsonRaw, jsonData, table, output, flags,
                   stdout, stdoutEnd, stderr, _exitcode, exitStatus, accepts,
                   exc, pipeVars, toolVars>>

NextFlags ==
    \/ \E flag \in FlagNames, value \in FlagValues : AddFlag(flag, value)
    \/ EndPass
    \/ ReportErrors
    \/ Exit

SpecFlags == InitFlags /\ [][NextFlags]_vars

-----------------------------------------------------------------------------
(* The query tool with --where on a packet that holds a list of objects   *)

kItems == <<"i", "t", "e", "m", "s">>

\* the objects of the lists: field a is an int, text, null or missing
WhereItems ==
    {VDict(<< <<kA, VInt(1)>> >>), VDict(<< <<kA, VInt(2)>> >>),
     VDict(<< <<kA, VStr(<<"x", "1">>)>> >>), VDict(<< <<kA, VStr(<<"1">>)>> >>),
     VDict(<< <<kA, VStr(<<"y", "x">>)>> >>), VDict(<< <<kA, None>> >>),
     VDict(<< <<kB, VInt(2)>> >>)}

\* longest list of objects
MaxItems == 2
MaxTokens == 3

WhereLists == UNION {[1..n -> WhereItems] : n \in 2..MaxItems}

\* a:1  a:x1  a:  b:2  a:/x/  a://  a:/1/  and ax, which has no colon
WhereSpecs ==
    {<<"a", ":", "1">>, <<"a", ":", "x", "1">>, <<"a", ":">>,
     <<"b", ":", "2">>, <<"a", ":", "/", "x", "/">>, <<"a", ":", "/", "/">>,
     <<"a", ":", "/", "1", "/">>, <<"a", "x">>}

InitWhere ==
    /\ switches \in {[Switches(<<kItems>>, NotGiven, FALSE, FALSE, FALSE, FALSE)
                        EXCEPT !.where = w] : w \in WhereSpecs \cup {NotGiven}}
    /\ stdin \in {<<JsonLine(VDict(<< <<kItems, VList(l)>> >>))>> :
                     l \in WhereLists}
    /\ pc = "start"
    /\ QueryFresh
    /\ PipeIdle

SpecWhere == InitWhere /\ [][Next]_vars

-----------------------------------------------------------------------------
(* ADPNCommandLineTool.__init__ and the numeric switches.  A switch value  *)
(* is None, an int, a bool, a float (given in tenths), a string, a list or *)
(* a dict.                                                                 *)

VBool(b) == [t |-> "bool", v |-> IF b THEN 1 ELSE 0]
VFloat(tenths) == [t |-> "float", v |-> tenths]

\* isinstance(x, numbers.Number)
IsNumber(x) == x.t \in {"int", "bool", "float"}

\* int(x) of a number: a float is truncated toward zero
number_int(x) ==
    IF x.t = "float"
    THEN (IF x.v >= 0 THEN x.v \div 10 ELSE - ((- x.v) \div 10))
    ELSE x.v

\* the number of ASCII digits the text starts with
RECURSIVE digit_run(_, _)
digit_run(s, n) ==
    IF n < Len(s) /\ s[n + 1] \in Digits THEN digit_run(s, n + 1) ELSE n

\* re.match(r"^([0-9]+)[,].*$", s): the length of group 1, 0 when there is
\* no match.  "." matches no line break and "$" matches at the end of the
\* text or before a line break that ends it.
comment_match(s) ==
    IF /\ digit_run(s, 0) > 0
       /\ digit_run(s, 0) < Len(s)
       /\ s[digit_run(s, 0) + 1] = ","
       /\ \A j \in (digit_run(s, 0) + 2)..Len(s) : s[j] = "\n" => j = Len(s)
    THEN digit_run(s, 0)
    ELSE 0

\* the result of a conversion: the exception raised, if any, and the value
Converted(n) == [raised |-> NoException, value |-> n]
ConvertFails(e) == [raised |-> e, value |-> 0]

\* the second half of convertto_numeric_value, rhs being the value or
\* group 1 of the match
numeric_value_of(rhs) ==
    IF IsNumber(rhs) THEN Converted(number_int(rhs))
    ELSE IF rhs.t = "str"
    THEN (IF py_int(rhs.v).ok THEN Converted(py_int(rhs.v).val)
          ELSE Converted(IF Len(rhs.v) > 0 THEN 1 ELSE 0))
    ELSE IF rhs.t = "none" THEN Converted(0)
    ELSE ConvertFails("TypeError")

\* convertto_numeric_value(value=value)
convertto_numeric_value(value) ==
    IF value.t = "str" /\ comment_match(value.v) > 0
    THEN numeric_value_of(VStr(SubSeq(value.v, 1, comment_match(value.v))))
    ELSE numeric_value_of(value)

\* the verbose setter in force (the second definition): no comment part
verbose_value(rhs) == numeric_value_of(rhs)

\* the switches of a tool built on ADPNCommandLineTool
ToolSwitches(verbose, debug, quiet, out, help, version, subdirectory) ==
    [verbose |-> verbose, debug |-> debug, quiet |-> quiet, output |-> out,
     help |-> help, version |-> version, subdirectory |-> subdirectory]

\* __init__ as far as the two levels go: [raised, verbose, debug]
init_levels(sw, v, d) ==
    IF v.raised # NoException
    THEN [raised |-> v.raised, verbose |-> 0, debug |-> 0]
    ELSE IF d.raised # NoException
    THEN [raised |-> d.raised, verbose |-> v.value, debug |-> 0]
    ELSE [raised |-> NoException,
          verbose |-> IF d.value > v.value THEN d.value ELSE v.value,
          debug |-> d.value]

\* longest text of a numeric switch, in characters
MaxText == 4

NumericChars == {"3", "0", ",", "a", "-", " ", "\n"}

NumericTexts ==
    SeqsUpTo(NumericChars, MaxText)
    \cup {<<"+", "3">>, <<"1", "_", "0">>, <<"_", "1">>, <<"3", ".", "5">>,
          <<"3", ",", "i", "g", "n", "o", "r", "e", "d">>,
          <<"1", "2", ",", "3", ",", "4">>}

NumericValues ==
    {None, VBool(TRUE), VBool(FALSE), VList(<<>>), VList(<<VInt(1)>>),
     VDict(<<>>)}
    \cup {VInt(n) : n \in {-2, 0, 1, 2, 300}}
    \cup {VFloat(k) : k \in {-37, -5, 0, 5, 30, 37}}
    \cup {VStr(s) : s \in NumericTexts}

\* the tool is about to be constructed
ToolNew ==
    /\ stdin = <<>>
    /\ pc = "new"
    /\ QueryFresh
    /\ PipeIdle

InitNumeric ==
    /\ switches \in {ToolSwitches(VInt(1), d, q, <<"text/plain">>, FALSE, FALSE,
                                  NotGiven) :
                        d \in NumericValues, q \in BOOLEAN}
    /\ ToolNew

\* ADPNCommandLineTool.__init__: an exception of a setter leaves the script
Construct ==
    /\ pc = "new"
    /\ LET r == init_levels(switches,
                            IF switches.quiet THEN Converted(0)
                            ELSE verbose_value(switches.verbose),
                            convertto_numeric_value(switches.debug))
       IN  /\ _verbose' = r.verbose
           /\ _debug' = r.debug
           /\ exc' = r.raised
           /\ pc' = IF r.raised = NoException THEN "start" ELSE "aborted"
           /\ exitStatus' = IF r.raised = NoException THEN exitStatus ELSE 1
    /\ UNCHANGED <<switches, stdin, jsonRaw, jsonData, table, output, flags,
                   stdout, stdoutEnd, stderr, _exitcode, accepts, scriptname,
                   package, args, reader, pipeVars>>

SpecNumeric == InitNumeric /\ [][Construct]_vars

-----------------------------------------------------------------------------
(* The two tools built on ADPNCommandLineTool, run from execute() on: the  *)
(* query tool and ADPNPackageContentScript.  package.fault says what the   *)
(* packaging steps meet: nothing, a missing required parameter, another    *)
(* failed requirement, a BagIt validation that exits with package.code, a  *)
(* manifest without the boilerplate, a missing file; "skip" is a run that  *)
(* skips the BagIt scan.                                                   *)

\* the largest exit code set_exitcode accepts, and a process can return
MaxExitCode == 255
\* the offset of the exit code of the BagIt validation
BagItOffset == 100
\* the exit codes of the handlers of the packaging tool
ParameterCode == 2
ManifestCode == 4
InterruptCode == 255

\* the state of the query tool that the packaging tool leaves alone
queryRest == <<stdin, jsonRaw, jsonData, table, output, flags, stdoutEnd,
               accepts>>

Faults ==
    {[fault |-> f, code |-> 0] :
        f \in {"none", "skip", "parameter", "requirement", "manifest",
               "notfound"}}
    \cup {[fault |-> "bagit", code |-> n] : n \in 0..MaxExitCode}

\* the command lines of the packaging tool; output is text/plain and
\* verbose is 1 unless given
PackageSwitches ==
    {ToolSwitches(VInt(v), None, q, o, FALSE, FALSE, d) :
        v \in 0..2, q \in BOOLEAN,
        o \in {<<"text/plain">>, <<"application/json">>},
        d \in {NotGiven, <<"au">>}}
    \cup {ToolSwitches(VInt(1), None, FALSE, <<"text/plain">>, h, v, NotGiven) :
            h \in BOOLEAN, v \in BOOLEAN}

\* the command lines of the query tool here
ToolQuerySwitches ==
    {[Switches(k, o, FALSE, FALSE, FALSE, q)
        EXCEPT !.help = h, !.version = v] :
        k \in {<<>>, <<kA>>, <<kMissing>>},
        o \in {NotGiven, <<"application/json">>},
        q \in BOOLEAN, h \in BOOLEAN, v \in BOOLEAN}

InitTools ==
    /\ QueryFresh
    /\ PipeIdle
    /\ \/ /\ switches \in ToolQuerySwitches
          /\ stdin \in SeqsUpTo(QueryLines, MaxLines)
          /\ pc = "start"
       \/ /\ switches \in PackageSwitches
          /\ stdin = <<>>
          /\ pc = "new"

\* the script whose __main__ runs: decided by the command line in hand
IsPackageRun == "subdirectory" \in DOMAIN switches

\* __main__ of adpn-do-package.py: the script object is constructed
ConstructPackage ==
    /\ pc = "new"
    /\ IsPackageRun
    /\ package' \in Faults
    /\ scriptname' = PackageScript
    /\ LET r == init_levels(switches,
                            IF switches.quiet THEN Converted(0)
                            ELSE verbose_value(switches.verbose),
                            convertto_numeric_value(switches.debug))
       IN  /\ _verbose' = r.verbose
           /\ _debug' = r.debug
           /\ exc' = r.raised
           /\ pc' = IF r.raised = NoException THEN "start" ELSE "aborted"
           /\ exitStatus' = IF r.raised = NoException THEN exitStatus ELSE 1
    /\ UNCHANGED <<switches, stdout, stderr, _exitcode, queryRest, pipeVars,
                   args, reader>>

UsageText == "Usage: ..."
VersionText == " version "

\* execute() -> display_usage(): print(self.__doc__), exit code 0, exit()
DisplayUsage ==
    /\ pc = "start"
    /\ switched(switches, "help")
    /\ stdout' = stdout \o <<Printed("display_usage", "", "", UsageText, None)>>
    /\ _exitcode' = set_exitcode(_exitcode, 0).code
    /\ exitStatus' = 0
    /\ pc' = "done"
    /\ UNCHANGED <<switches, stderr, exc, queryRest, pipeVars, toolVars>>

\* execute() -> display_version(): the version line, exit code 0, exit()
DisplayVersion ==
    /\ pc = "start"
    /\ ~ switched(switches, "help")
    /\ switched(switches, "version")
    /\ stdout' = stdout \o
          <<Printed("display_version", "", scriptname, VersionText, None)>>
    /\ _exitcode' = set_exitcode(_exitcode, 0).code
    /\ exitStatus' = 0
    /\ pc' = "done"
    /\ UNCHANGED <<switches, stderr, exc, queryRest, pipeVars, toolVars>>

\* a step of the try block of ADPNPackageContentScript.execute: the status
\* w is written, then the step raises e or goes on to next
\* a step of the try block that goes on to the next step after a failure
PackageStep_resume(w, e, next) ==
    /\ stdout' = status_on("stdout", stdout, w)
    /\ stderr' = status_on("stderr", stderr, w)
    /\ exc' = NoException
    /\ pc' = next
    /\ UNCHANGED <<_exitcode, exitStatus, queryRest, pipeVars, toolVars>>

PackageStep(w, e, next) ==
    /\ stdout' = status_on("stdout", stdout, w)
    /\ stderr' = status_on("stderr", stderr, w)
    /\ exc' = e
    /\ pc' = IF e = NoException THEN next ELSE "raised"
    /\ UNCHANGED <<_exitcode, exitStatus, queryRest, pipeVars, toolVars>>

\* lines 192-198: the subdirectory defaults to the name of the directory,
\* the package is constructed
Prepare ==
    /\ pc = "start"
    /\ scriptname = PackageScript
    /\ ~ switched(switches, "help") /\ ~ switched(switches, "version")
    /\ switches' = IF switches.subdirectory = NotGiven
                   THEN [switches EXCEPT !.subdirectory = <<"cwd">>]
                   ELSE switches
    /\ PackageStep([write_status(switches, _verbose, scriptname,
                        "Using present working directory name for staging area subdirectory: ",
                        NotGiven, TRUE, 1)
                     EXCEPT !.printed = @ /\ switches.subdirectory = NotGiven],
                   IF package.fault = "notfound" THEN "FileNotFoundError"
                   ELSE NoException,
                   "confirm")

\* lines 201-202, step 1: the plugin parameters are confirmed
ConfirmParameters ==
    /\ pc = "confirm"
    /\ PackageStep(write_status(switches, _verbose, scriptname,
                        "* Confirming required LOCKSS plugin parameters",
                        NotGiven, TRUE, 2),
                   IF package.fault \in {"parameter", "requirement"}
                   THEN "AssertionError" ELSE NoException,
                   "bagit")
    /\ UNCHANGED switches

\* lines 205-209, step 2: the BagIt enclosure is checked or skipped
CheckBagIt ==
    /\ pc = "bagit"
    /\ PackageStep(write_status(switches, _verbose, scriptname,
                        IF package.fault = "skip"
                        THEN "* Skipped BagIt validation: "
                        ELSE "* Checking BagIt packaging: ",
                        NotGiven, TRUE, 1),
                   IF package.fault = "bagit" THEN "AssertionError"
                   ELSE NoException,
                   "manifest")
    /\ UNCHANGED switches

\* lines 212-217, step 3: the manifest is confirmed or requested
CheckManifest ==
    /\ pc = "manifest"
    /\ \E has_manifest \in BOOLEAN :
          PackageStep(write_status(switches, _verbose, scriptname,
                          IF has_manifest
                          THEN "* Confirming manifest HTML: "
                          ELSE "* Requesting LOCKSS manifest HTML from service: ",
                          NotGiven, TRUE, 1),
                      IF package.fault = "manifest" THEN "AssertionError"
                      ELSE NoException,
                      "output")
    /\ UNCHANGED switches

\* lines 221-224, steps 4 and 5: write_output(data=out_packet,
\* prolog="JSON PACKET:\t") prints the prolog and the packet to stdout
PacketOutput ==
    /\ pc = "output"
    /\ stdout' = stdout \o
          <<Printed("write_output", "", "JSON PACKET:\t",
                    IF json_output(switches) THEN "json.dumps(data)"
                    ELSE "str(data)", None)>>
    /\ pc' = "finished"
    /\ UNCHANGED <<switches, stderr, _exitcode, exitStatus, exc, queryRest,
                   pipeVars, toolVars>>

\* what the handler of AssertionError hands to write_error
assertion_error(fault, code) ==
    CASE fault = "bagit" ->
            [code |-> BagItOffset + code, before |-> <<>>,
             message |-> "BagIt validation failed, exit code ",
             after |-> <<Printed("print", "", "", "validation output", None)>>]
      [] fault = "manifest" ->
            [code |-> ManifestCode, before |-> <<>>,
             message |-> "Required boilerplate: ", after |-> <<>>]
      [] fault = "parameter" ->
            [code |-> ParameterCode,
             before |-> <<Printed("print", "", "", "ERR:", None),
                          Printed("print", "", "", "e.args", None)>>,
             message |-> "Required parameter missing: ", after |-> <<>>]
      [] OTHER ->
            [code |-> ParameterCode, before |-> <<>>,
             message |-> "Requirement failure: ", after |-> <<>>]

\* the traceback of an exception nothing catches
Traceback(e) == Printed("traceback", "", "", e, None)

\* lines 226-248: except AssertionError.  write_error sets the exit code
\* first: a code out of range raises ValueError inside the handler, which
\* nothing catches
HandleAssertion ==
    /\ pc = "raised"
    /\ exc = "AssertionError"
    /\ LET a == assertion_error(package.fault, package.code)
           r == write_error(_exitcode, scriptname, a.code, a.message, "",
                            IF package.fault = "bagit" THEN VInt(package.code)
                            ELSE None)
       IN  IF r.ok
           THEN /\ _exitcode' = r.code
                /\ stderr' = stderr \o a.before \o <<r.line>> \o a.after
                /\ exc' = NoException
                /\ pc' = "finished"
                /\ UNCHANGED exitStatus
           ELSE /\ stderr' = stderr \o a.before \o <<Traceback("ValueError")>>
                /\ exc' = "ValueError"
                /\ pc' = "aborted"
                /\ exitStatus' = 1
                /\ UNCHANGED _exitcode
    /\ UNCHANGED <<switches, stdout, queryRest, pipeVars, toolVars>>

\* lines 250-251: except KeyboardInterrupt
HandleInterrupt ==
    /\ pc = "raised"
    /\ exc = "KeyboardInterrupt"
    /\ LET r == write_error(_exitcode, scriptname, InterruptCode,
                            "Keyboard Interrupt.", "^C\n", None)
       IN  /\ _exitcode' = r.code
           /\ stderr' = stderr \o <<r.line>>
    /\ exc' = NoException
    /\ pc' = "finished"
    /\ UNCHANGED <<switches, stdout, exitStatus, queryRest, pipeVars, toolVars>>

\* lines 253-257: except FileNotFoundError passes when the exit code is 3
\* and raises again otherwise
HandleFileNotFound ==
    /\ pc = "raised"
    /\ exc = "FileNotFoundError"
    /\ IF _exitcode = 3
       THEN /\ pc' = "finished"
            /\ exc' = NoException
            /\ UNCHANGED <<stderr, exitStatus>>
       ELSE /\ pc' = "aborted"
            /\ stderr' = stderr \o <<Traceback("FileNotFoundError")>>
            /\ exitStatus' = 1
            /\ UNCHANGED exc
    /\ UNCHANGED <<switches, stdout, _exitcode, queryRest, pipeVars, toolVars>>

\* lines 259-263: self.exit(), sys.exit(self.exitcode)
PackageExit ==
    /\ pc = "finished"
    /\ exitStatus' = _exitcode
    /\ pc' = "done"
    /\ UNCHANGED <<switches, stdout, stderr, _exitcode, exc, queryRest,
                   pipeVars, toolVars>>

\* where execute() of the packaging tool is inside its try block
InTry == pc \in {"confirm", "bagit", "manifest", "output"}

\* where either script is running outside a try block that catches
\* KeyboardInterrupt
Unguarded ==
    pc \in {"new", "start", "raised", "finished", "input", "displayed",
            "written", "reported"}

\* the status of a process that an uncaught KeyboardInterrupt ends: 1, or
\* 130 when the interpreter ends itself with SIGINT
InterruptStatus == {1, 130}

\* a keyboard interrupt arrives while the script runs: inside the try
\* block of the packaging tool the step under way is abandoned for the
\* handler, anywhere else nothing catches the exception
Interrupt ==
    /\ InTry \/ Unguarded
    /\ exc' = "KeyboardInterrupt"
    /\ IF InTry
       THEN /\ pc' = "raised"
            /\ UNCHANGED <<stderr, exitStatus>>
       ELSE /\ pc' = "aborted"
            /\ stderr' = stderr \o <<Traceback("KeyboardInterrupt")>>
            /\ exitStatus' \in InterruptStatus
    /\ UNCHANGED <<switches, stdout, _exitcode, queryRest, pipeVars, toolVars>>

NextTools ==
    \/ ConstructPackage
    \/ DisplayUsage
    \/ DisplayVersion
    \/ GetJsonInput
    \/ DisplayData
    \/ WriteOutput
    \/ ReportErrors
    \/ Exit
    \/ Prepare
    \/ ConfirmParameters
    \/ CheckBagIt
    \/ CheckManifest
    \/ PacketOutput
    \/ HandleAssertion
    \/ HandleInterrupt
    \/ HandleFileNotFound
    \/ PackageExit
    \/ Interrupt

SpecTools == InitTools /\ [][NextTools]_vars

-----------------------------------------------------------------------------
(* Properties of the JSON query tool *)

AfterWrite == pc \in {"written", "reported", "done"} /\ ~ IsNone(table)

\* C1: the final exit code of the query tool is 2 when a json_error flag
\* was recorded, otherwise 1 when a key_error flag was, otherwise 254 when
\* an output_error flag was, otherwise 0.
C1_ExitCodePriority ==
    pc = "done" =>
        exitStatus = CASE flags.json_error # <<>> -> 2
                       [] flags.json_error = <<>> /\ flags.key_error # <<>> -> 1
                       [] flags.json_error = <<>> /\ flags.key_error = <<>>
                            /\ flags.output_error # <<>> -> 254
                       [] OTHER -> 0

\* all three kinds of error were flagged, and the decode error decided
C1_Witness ==
    /\ pc = "done"
    /\ flags.key_error # <<>>
    /\ flags.output_error # <<>>
    /\ flags.json_error # <<>>
    /\ exitStatus = 2

\* C2: asked for one key that the decoded packet does not hold, the query
\* tool writes nothing to standard output and exits with code 1, whatever
\* the output format.
C2_MissingKeySilent ==
    (/\ pc = "done"
     /\ ~ IsNone(table)
     /\ Len(data_keys(switches)) = 1
     /\ ~ HasKey(table.v, data_keys(switches)[1]))
    => (stdout = <<>> /\ exitStatus = 1)

\* the objects the store accepted from standard input: all lines on the
\* direct pass, the lines that hold an object on the screen pass
C3_Objects ==
    LET objs == IF \A i \in 1..Len(stdin) : stdin[i].kind = "json"
                THEN SelectSeq2(stdin, {"json"})
                ELSE SelectSeq2(stdin, {"json", "noisy"})
    IN  [i \in 1..Len(objs) |-> objs[i].v]

C3_Last(objs, k) ==
    CHOOSE i \in 1..Len(objs) :
        /\ HasKey(objs[i], k)
        /\ \A j \in (i + 1)..Len(objs) : ~ HasKey(objs[j], k)

\* C3: the packet merged from the accepted objects maps every key to the
\* whole value of the last object that holds the key (so a key of T2 has
\* T2's value, a key only in T1 has T1's), and has no other key.
C3_ShallowMerge ==
    (pc # "start" /\ ~ IsNone(table)) =>
        LET objs == C3_Objects
        IN  /\ \A i \in 1..Len(objs) : \A k \in Range(Keys(objs[i])) :
                  /\ HasKey(jsonData, k)
                  /\ Lookup(jsonData, k) = Lookup(objs[C3_Last(objs, k)], k)
            /\ \A k \in Range(Keys(jsonData)) :
                  \E i \in 1..Len(objs) : HasKey(objs[i], k)

\* {"b": {"c": 5}, "a": [1, 2]} then {"b": {"a": 3}, "c": []}: b is
\* replaced whole, a is kept
C3_Witness ==
    /\ pc = "input"
    /\ stdin = <<JsonLine(Obj3), JsonLine(Obj4)>>
    /\ DictGet(jsonData, kB) = VDict(<< <<kA, VInt(3)>> >>)
    /\ DictGet(jsonData, kA) = VList(<<VInt(1), VInt(2)>>)

C8_Tsv ==
    /\ AfterWrite
    /\ switches.output = <<"text/tab-separated-values">>
    /\ Len(data_keys(switches)) > 1
    /\ \A i \in 1..Len(data_keys(switches)) : HasKey(table.v, data_keys(switches)[i])

C8_Pairs ==
    [i \in 1..Len(data_keys(switches)) |->
        data_keys(switches)[i] \o TAB \o PyStr(Lookup(table.v, data_keys(switches)[i]))]

\* C8 as claimed: several keys selected with tab-separated output give one
\* line "key TAB value" per key, in the order asked, newline-terminated.
C8_OneLinePerKey ==
    (C8_Tsv /\ ~ switches.epilog) => stdout = Join(C8_Pairs, NL) \o NL

\* C8 as amended: several keys, all held by the packet, selected with
\* tab-separated output give a single line, the "key TAB value" pairs in
\* the order asked joined by TABs, and the output ends with a newline.
C8_PairsOnOneLine ==
    C8_Tsv =>
        /\ output = << Join(C8_Pairs, TAB) >>
        /\ stdout = format_line(switches, Join(C8_Pairs, TAB)) \o NL

\* keys a, b of {"a": 1, "b": 2}
C8_Witness ==
    /\ C8_Tsv
    /\ stdin = <<JsonLine(Obj1)>>
    /\ data_keys(switches) = <<kA, kB>>
    /\ stdout = <<"a", "\t", "1", "\t", "b", "\t", "2", "\n">>

\* C9: the terminator of the emitted output is a newline exactly when table
\* mode is active or more than one line was produced; the output is the
\* produced lines joined by newlines, then that terminator.
C9_Terminator ==
    AfterWrite =>
        /\ stdoutEnd = NL <=> (wants_table(switches) \/ Len(output) > 1)
        /\ stdoutEnd = <<>> <=> ~ (wants_table(switches) \/ Len(output) > 1)
        /\ output # <<>> =>
              stdout = Join([i \in 1..Len(output) |-> format_line(switches, output[i])],
                            NL) \o stdoutEnd

\* one line outside table mode: key a of {"a": 1, "b": 2} prints "1" and
\* no newline
C9_Witness ==
    /\ AfterWrite
    /\ ~ wants_table(switches)
    /\ output = << <<"1">> >>
    /\ stdout = <<"1">>

\* C10: splat is on unless --nosplat is given; under splat a key whose
\* merged value is a one-element list [x] selects x and any other value is
\* selected unchanged; without splat every value is selected unchanged.
C10_Splat ==
    (pc # "start" /\ ~ IsNone(table)) =>
        /\ Len(table.v) = Len(jsonData)
        /\ \A i \in 1..Len(jsonData) :
              LET v == jsonData[i][2] IN
              /\ table.v[i][1] = jsonData[i][1]
              /\ table.v[i][2] =
                    IF ~ switches.nosplat /\ IsList(v) /\ Len(v.v) = 1
                    THEN v.v[1] ELSE v

\* {"a": [7], "c": "x y"} with no --nosplat: a selects 7
C10_Witness ==
    /\ pc = "input"
    /\ ~ switches.nosplat
    /\ DictGet(jsonData, kA) = VList(<<VInt(7)>>)
    /\ DictGet(table.v, kA) = VInt(7)

-----------------------------------------------------------------------------
(* Properties of the pipeline helper *)

C4_All == allData(pipeData, TRUE)

C4_IsPairList(x) ==
    /\ IsList(x)
    /\ \A i \in 1..Len(x.v) : IsList(x.v[i]) /\ Len(x.v[i].v) = 2

C4_Named(params, n) == {i \in 1..Len(params) : params[i].v[1] = VStr(n)}

C4_Max(S) == CHOOSE i \in S : \A j \in S : j <= i

C5_ParametersOnlyOnFallback ==
    (/\ call.op = "get_data"
     /\ ~ call.raised
     /\ ~ IsNone(pipelines)
     /\ IsStr(call.key)
     /\ call.key.v[1] # "@" \/ HasKey(C4_All, call.key.v))
    => call.result = DictGet(C4_All, call.key.v)

\* what the packet supplies for the data source of the last backfilled call
C6_Piped ==
    get_data(pipelines_read(pipelines, piped, conditional, stream_in),
             call.source).result

C6_Backfilled == call.op = "backfilled" /\ ~ call.raised

\* C6 as claimed: for an option not given on the command line that has a
\* value from the defaults file or a built-in default, backfilled replaces
\* that value with the value the piped packet supplies.
C6_PipedBeatsDefaults ==
    (/\ C6_Backfilled
     /\ ~ HasKey(cli, call.key.v)
     /\ \/ HasKey(defaultsFile, call.key.v)
        \/ ~ IsNone(DictGet(builtin, call.key.v))
     /\ ~ IsNone(C6_Piped))
    => DictGet(call.result.v, call.key.v) = C6_Piped

\* C6 as amended: the precedence is command-line switch, then defaults
\* file, then built-in default, then the piped value: backfilled keeps a
\* value that any of the first three gave and takes the piped value only
\* when none of them gave one.
C6_Precedence ==
    C6_Backfilled =>
        DictGet(call.result.v, call.key.v) =
            IF HasKey(cli, call.key.v) THEN Lookup(cli, call.key.v)
            ELSE IF HasKey(defaultsFile, call.key.v)
            THEN Lookup(defaultsFile, call.key.v)
            ELSE IF ~ IsNone(DictGet(builtin, call.key.v))
            THEN Lookup(builtin, call.key.v)
            ELSE C6_Piped

\* local comes from the defaults file although the packet supplies it too
C6_Witness ==
    /\ C6_Backfilled
    /\ call.key = VStr(kLocal)
    /\ cli = <<>>
    /\ HasKey(defaultsFile, kLocal)
    /\ C6_Piped = VStr(<<"p", "l">>)
    /\ DictGet(call.result.v, kLocal) = VStr(<<"f", "l">>)

\* C7: backfilled returns a mapping that equals the table on every other
\* key, keeps the value of key when it is set, sets key to the piped value
\* only when it was unset and the packet supplies one, and leaves the
\* mapping passed in as it was.
C7_BackfillFrame ==
    C6_Backfilled =>
        LET tbl == call.before
            res == call.result.v
            k == call.key.v
        IN  /\ \A j \in (OptionKeys \cup Range(Keys(tbl)) \cup Range(Keys(res))) \ {k} :
                  /\ HasKey(res, j) <=> HasKey(tbl, j)
                  /\ DictGet(res, j) = DictGet(tbl, j)
            /\ ~ IsNone(DictGet(tbl, k)) => res = tbl
            /\ IsNone(DictGet(tbl, k)) => DictGet(res, k) = C6_Piped
            /\ (IsNone(DictGet(tbl, k)) /\ IsNone(C6_Piped)) => res = tbl
            /\ optTable = tbl

\* title, which the table does not hold, is filled from the packet; the
\* table itself still has no title
C7_Witness ==
    /\ C6_Backfilled
    /\ call.key = VStr(kTitle)
    /\ ~ HasKey(call.before, kTitle)
    /\ DictGet(call.result.v, kTitle) = VStr(<<"p", "t">>)
    /\ ~ HasKey(optTable, kTitle)

-----------------------------------------------------------------------------
(* Properties of the query tool piped into a next stage *)

C11_Reparsed ==
    /\ pc = "piped"
    /\ call.op = "get_data"
    /\ ~ IsNone(table)

\* the two packets hold the same keys with the same values
C11_SamePacket(p, q) ==
    /\ IsDict(p) /\ IsDict(q)
    /\ Range(Keys(p.v)) = Range(Keys(q.v))
    /\ \A k \in Range(Keys(p.v)) : Lookup(p.v, k) = Lookup(q.v, k)

\* C11 as claimed: the packet the query tool holds, written as
\* application/json and read back through the packet store, is the same
\* packet up to key order, one-element list values included.
C11_RoundTrip ==
    C11_Reparsed => (~ call.raised /\ C11_SamePacket(call.result, table))

\* C11 as amended: the packet read back holds the keys of the packet
\* written, each with the value written except that a top-level value
\* that is a one-element list [x] comes back as x; so the round trip gives
\* back an equal packet exactly when no top-level value is a one-element
\* list.
C11_RoundTripSplat ==
    C11_Reparsed =>
        /\ ~ call.raised
        /\ C11_SamePacket(call.result,
                          VDict([i \in 1..Len(table.v) |->
                                    <<table.v[i][1], SplatValue(table.v[i][2])>>]))
        /\ C11_SamePacket(call.result, table)
              <=> \A i \in 1..Len(table.v) :
                     ~ (IsList(table.v[i][2]) /\ Len(table.v[i][2].v) = 1)

\* a packet of nested values and escaped text comes back as it was written
C11_Witness ==
    /\ C11_Reparsed
    /\ stdin = <<JsonLine(Obj6)>>
    /\ table = Obj6
    /\ call.result = Obj6

-----------------------------------------------------------------------------
(* Properties of the parse passes of the query tool *)

\* the direct pass fails on this input: no line, or a line that is not a
\* JSON object literal
C12_DirectFails == stdin = <<>> \/ \E i \in 1..Len(stdin) : stdin[i].kind # "json"

\* the screen pass fails on this input: no line holds an object
C12_ScreenFails == \A i \in 1..Len(stdin) : stdin[i].kind = "prose"

\* C12: the store is first asked for a direct pass; the screen pass is made
\* only after the direct pass failed and never when it succeeded; the
\* json_error flag and exit code 2 are recorded only when both passes were
\* made and both failed.
C12_FallbackOrder ==
    /\ accepts \in {<<>>, <<FALSE>>, <<FALSE, TRUE>>}
    /\ pc # "start" => accepts # <<>>
    /\ accepts = <<FALSE, TRUE>> => C12_DirectFails
    /\ (accepts # <<>> /\ ~ C12_DirectFails) => accepts = <<FALSE>>
    /\ flags.json_error # <<>> =>
          accepts = <<FALSE, TRUE>> /\ C12_DirectFails /\ C12_ScreenFails
    /\ (pc = "done" /\ exitStatus = 2) =>
          accepts = <<FALSE, TRUE>> /\ C12_DirectFails /\ C12_ScreenFails

\* a noisy line made the direct pass fail and the screen pass found its
\* object: no decode error is recorded
C12_Witness ==
    /\ pc = "done"
    /\ accepts = <<FALSE, TRUE>>
    /\ \E i \in 1..Len(stdin) : stdin[i].kind = "noisy"
    /\ flags.json_error = <<>>
    /\ exitStatus # 2

-----------------------------------------------------------------------------
(* Properties of the screen pass *)

\* what each line of text holds for the screen pass: the object of its
\* first balanced span, or nothing
C13_Holds(line) ==
    CASE line = ScreenNoisy -> << <<kK, VInt(1)>> >>
      [] line = ScreenNested -> ObjNested.v
      [] line = ScreenTwo -> << <<kK, VInt(1)>> >>
      [] line = ScreenPlain -> << <<kB, VInt(2)>> >>
      [] OTHER -> <<>>

C13_Nothing == {ScreenOpen, ScreenNope, ScreenLate}

RECURSIVE C13_Merged(_, _)
C13_Merged(acc, lines) ==
    IF lines = <<>> THEN acc
    ELSE C13_Merged(IF lines[1] \in C13_Nothing THEN acc
                    ELSE DictUpdate(acc, C13_Holds(lines[1])),
                    Tail(lines))

\* C13: on the screen pass every line gives the object of its first
\* balanced {...} span, nested braces counted and braces inside quoted
\* strings ignored (noise {"k":1} end gives {"k": 1}); a line whose first
\* balanced span is not JSON, or that has no balanced span, gives nothing;
\* a decode error is recorded exactly when no line gives an object.
C13_ScreenExtraction ==
    pc # "start" =>
        /\ accepts = IF stdin # <<>> /\ \A i \in 1..Len(stdin) : stdin[i] = ScreenPlain
                     THEN <<FALSE>> ELSE <<FALSE, TRUE>>
        /\ jsonData = C13_Merged(<<>>, stdin)
        /\ IsNone(table) <=> \A i \in 1..Len(stdin) : stdin[i] \in C13_Nothing
        /\ flags.json_error # <<>> <=> IsNone(table)

\* a line with no parsable span, then noise {"k":1} end: the packet is
\* {"k": 1}
C13_Witness ==
    /\ pc = "done"
    /\ stdin = <<ScreenNope, ScreenNoisy>>
    /\ accepts = <<FALSE, TRUE>>
    /\ table = VDict(<< <<kK, VInt(1)>> >>)
    /\ exitStatus = 0

-----------------------------------------------------------------------------
(* Properties of the numeric switches *)

C14_Converted == pc # "new"

\* the text starts with digits followed by a comma
C14_DigitsComma(s) ==
    \E n \in 1..(Len(s) - 1) :
        /\ \A j \in 1..n : s[j] \in Digits
        /\ s[n + 1] = ","

\* the number the leading digits of the text spell
C14_Leading(s) ==
    py_int(SubSeq(s, 1, CHOOSE n \in 1..(Len(s) - 1) :
                            /\ \A j \in 1..n : s[j] \in Digits
                            /\ s[n + 1] = ",")).val

\* C14: convertto_numeric_value maps a number to the number truncated, a
\* string that starts with digits followed by a comma to those digits, a
\* string that parses as an integer to that integer, any other non-empty
\* string to 1, the empty string and None to 0, and raises TypeError for a
\* value of any other type.
C14_NumericValue ==
    C14_Converted =>
        LET d == switches.debug
        IN  CASE IsNumber(d) ->
                    exc = NoException /\ _debug = number_int(d)
              [] d.t = "str" /\ C14_DigitsComma(d.v) ->
                    exc = NoException /\ _debug = C14_Leading(d.v)
              [] d.t = "str" /\ ~ C14_DigitsComma(d.v) /\ py_int(d.v).ok ->
                    exc = NoException /\ _debug = py_int(d.v).val
              [] d.t = "str" /\ ~ C14_DigitsComma(d.v) /\ ~ py_int(d.v).ok ->
                    exc = NoException /\ _debug = IF d.v = <<>> THEN 0 ELSE 1
              [] d.t = "none" -> exc = NoException /\ _debug = 0
              [] OTHER -> exc = "TypeError" /\ pc = "aborted"

-----------------------------------------------------------------------------
(* Properties of the tools: exit codes, interrupts, streams, help *)

\* the run is over: the process has exited or an exception has ended it
ToolEnded == pc \in {"done", "aborted"}

\* a keyboard interrupt arrived during the run
Interrupted ==
    \/ exc = "KeyboardInterrupt"
    \/ \E i \in 1..Len(stderr) : stderr[i].message = "Keyboard Interrupt."

\* the handler of AssertionError ran for the fault of the package
Failed(fault) ==
    /\ scriptname = PackageScript
    /\ package.fault = fault
    /\ ~ Interrupted
    /\ \E i \in 1..Len(stderr) :
          \/ stderr[i].by = "write_error"
          \/ stderr[i] = Traceback("ValueError")

\* C15: the packaging tool ends with exit code 2 after a missing required
\* parameter, 4 after a manifest boilerplate mismatch, and exactly 100+N
\* after a BagIt validation failure whose tool exited with N, for every N
\* in 0..255.
C15_PackageExitCodes ==
    ToolEnded =>
        /\ Failed("parameter") => exitStatus = ParameterCode
        /\ Failed("manifest") => exitStatus = ManifestCode
        /\ Failed("bagit") => exitStatus = BagItOffset + package.code

\* C16: a keyboard interrupt that arrives at any point while a stage runs,
\* the query tool or the packaging tool, is caught by the stage, which
\* ends with exit code 255.
C16_InterruptCaught ==
    /\ exc = "KeyboardInterrupt" => pc = "raised"
    /\ (ToolEnded /\ Interrupted) => exitStatus = InterruptCode

\* C17: exit code 255 is reserved for the user interrupt: no run that was
\* not interrupted ends with exit code 255.
C17_ReservedCode ==
    (ToolEnded /\ ~ Interrupted) => exitStatus # InterruptCode

\* the lines of a stream that write_status or write_error printed
Diagnostics(stream) ==
    {i \in 1..Len(stream) : stream[i].by \in {"write_status", "write_error"}}

Statuses(stream) == {i \in 1..Len(stream) : stream[i].by = "write_status"}

\* C18 as stated: every message of write_status and write_error goes to
\* standard error with the bracketed script name in front, and standard
\* output receives only the data payload, for every output format and
\* every verbosity level.
C18_StreamSeparation ==
    IsPackageRun =>
        /\ \A i \in 1..Len(stdout) :
              stdout[i].by \in {"write_output", "display_usage",
                                "display_version"}
        /\ \A i \in Diagnostics(stderr) :
              stderr[i].tag = Bracketed(scriptname)

\* C18, amended: every message of write_error goes to standard error with
\* the bracketed script name in front (after the lead-in, if one is given).
\* A notice of write_status carries the bracketed script name and is
\* printed only up to the verbose level; it goes to standard error when an
\* output format other than text/plain is selected and to standard output,
\* with the payload, when the format is text/plain or none.  So standard
\* output holds only the payload when the format is not text/plain or the
\* verbose level is 0.
C18_StatusStreams ==
    /\ pc # "new" =>
          \A i \in Diagnostics(stderr) : stderr[i].tag = Bracketed(scriptname)
    /\ IsPackageRun =>
          /\ \A i \in Diagnostics(stdout) :
                /\ stdout[i].by = "write_status"
                /\ stdout[i].tag = Bracketed(scriptname)
          /\ Statuses(stdout) # {} => plain_text_output(switches)
          /\ Statuses(stderr) # {} => ~ plain_text_output(switches)
          /\ (pc # "new" /\ _verbose = 0) =>
                Statuses(stdout) = {} /\ Statuses(stderr) = {}
          /\ \A i \in Statuses(stdout) \cup Statuses(stderr) :
                LET line == IF plain_text_output(switches) THEN stdout[i]
                            ELSE stderr[i]
                IN  line.message = "* Confirming required LOCKSS plugin parameters"
                        => _verbose >= 2
          /\ (pc \in {"finished", "done"} /\ _verbose >= 1
                /\ package.fault \in {"none", "skip"} /\ ~ Interrupted
                /\ ~ switches.help /\ ~ switches.version) =>
                Statuses(IF plain_text_output(switches) THEN stdout
                         ELSE stderr) # {}

\* a default run of the packaging tool: the notices and the packet are on
\* standard output, standard error is empty
C18_Witness ==
    /\ scriptname = PackageScript
    /\ pc = "done"
    /\ plain_text_output(switches)
    /\ exitStatus = 0
    /\ Statuses(stdout) # {}
    /\ \E i \in 1..Len(stdout) : stdout[i].by = "write_output"
    /\ stderr = <<>>

\* C19: with --help or --version, execute() prints the usage or version
\* text and the process exits with code 0 before standard input is read
\* and before any query or packaging step runs.
C19_HelpShortCircuit ==
    (pc # "new" /\ (switches.help \/ switches.version)) =>
        /\ pc \in {"start", "done", "aborted"}
        /\ pc = "aborted" => exc = "KeyboardInterrupt"
        /\ pc = "done" =>
              /\ exitStatus = 0
              /\ stdout = <<IF switches.help
                            THEN Printed("display_usage", "", "", UsageText, None)
                            ELSE Printed("display_version", "", scriptname,
                                         VersionText, None)>>
              /\ stderr = <<>>
        /\ pc # "done" => stdout = <<>>
        /\ accepts = <<>> /\ IsNone(jsonRaw) /\ IsNone(table) /\ output = <<>>
        /\ flags = NoFlags
        /\ IsPackageRun => switches.subdirectory = NotGiven

\* --version alone to the query tool with lines waiting on standard input
C19_Witness ==
    /\ pc = "done"
    /\ scriptname = JsonScript
    /\ switches.version /\ ~ switches.help
    /\ stdin # <<>>
    /\ exitStatus = 0
    /\ accepts = <<>>

-----------------------------------------------------------------------------
(* Properties of the where filter *)

\* the filter has the form key:value or key:/regex/
C20_WellFormed ==
    switches.where # NotGiven /\ \E i \in 1..Len(switches.where) :
        switches.where[i] = ":"

C20_Key == SubSeq(switches.where, 1, colon_place(switches.where, 1) - 1)
C20_Value ==
    SubSeq(switches.where, colon_place(switches.where, 1) + 1,
           Len(switches.where))

\* the item's field equals the literal, as text for a text field and as a
\* number for a numeric field, or matches the regex
C20_Keeps(item) ==
    LET field == DictGet(item.v, C20_Key)
    IN  IF is_regex_value(C20_Value)
        THEN /\ IsStr(field)
             /\ re_match(SubSeq(C20_Value, 2, Len(C20_Value) - 1), field.v)
        ELSE IF IsStr(field) THEN field.v = C20_Value
        ELSE /\ field.t = "int"
             /\ py_int(C20_Value).ok
             /\ field.v = py_int(C20_Value).val

C20_List == Lookup(stdin[1].obj.v, kItems).v

\* C20: the where filter keeps, from a list of objects, exactly the items
\* whose field equals the literal value (as text for text fields, as a
\* number for numeric fields) or matches the regex; items whose field is
\* missing or does not match are dropped; evaluating the filter never
\* raises.
C20_WhereFilter ==
    C20_WellFormed =>
        /\ exc = "" /\ pc # "aborted"
        /\ pc \in {"displayed", "written", "reported", "done"} =>
              output = [i \in 1..Len(SelectSeq(C20_List, C20_Keeps)) |->
                            PyStr(SelectSeq(C20_List, C20_Keeps)[i])]

-----------------------------------------------------------------------------
(* Properties of the key selection *)

\* the keys asked for, or every key of the packet in its order
C21_Selected ==
    IF switches.key.v = <<>> THEN Keys(table.v) ELSE switches.key.v

\* the packet was rendered and holds every key asked for
C21_Rendered ==
    /\ pc \in {"displayed", "written", "reported", "done"}
    /\ ~ IsNone(table)
    /\ \A i \in 1..Len(C21_Selected) : HasKey(table.v, C21_Selected[i])

C21_Pairs ==
    [i \in 1..Len(C21_Selected) |->
        get_output(switches, Lookup(table.v, C21_Selected[i]), C21_Selected[i],
                   TRUE)[1]]

\* C21: with a non-empty list of requested keys the rendered result holds
\* exactly those keys, in the requested order; with no key requested it
\* holds every key of the packet in the packet's order.  As JSON the
\* result is an object with those keys and the packet's values; as text
\* it is one "key TAB value" pair per key (one value, or the content of
\* one list or object, for a single key outside table mode).
C21_KeySubset ==
    C21_Rendered =>
        IF wants_json_output(switches)
        THEN /\ Len(output) = 1
             /\ json_loads(output[1]).ok
             /\ Keys(json_loads(output[1]).val.v) = C21_Selected
             /\ \A i \in 1..Len(C21_Selected) :
                   Lookup(json_loads(output[1]).val.v, C21_Selected[i])
                       = Lookup(table.v, C21_Selected[i])
        ELSE IF Len(C21_Selected) > 1
        THEN output = IF wants_table(switches) THEN <<Join(C21_Pairs, TAB)>>
                      ELSE C21_Pairs
        ELSE IF Len(C21_Selected) = 1
        THEN LET value == Lookup(table.v, C21_Selected[1])
                 st0 == [output |-> <<>>, flags |-> NoFlags, raised |-> ""]
                 nested ==
                     IF IsList(value)
                     THEN display_data_list(switches, st0, value, table,
                                            switches.parse, 2).output
                     ELSE display_data_dict(switches, st0, value, table,
                                            switches.parse, <<>>, 2).output
             IN  IF IsList(value) \/ IsDict(value)
                 THEN output = nested \o (IF wants_table(switches) THEN << <<>> >>
                                          ELSE <<>>)
                 ELSE output = get_output(switches, value, C21_Selected[1],
                                          wants_table(switches))
        ELSE output = IF wants_table(switches) THEN << <<>> >> ELSE <<>>

\* keys b, a of {"a": 1, "b": 2} as JSON: {"b": 2, "a": 1}
C21_Witness ==
    /\ C21_Rendered
    /\ stdin = <<JsonLine(Obj1)>>
    /\ switches.key.v = <<kB, kA>>
    /\ wants_json_output(switches)
    /\ Keys(json_loads(output[1]).val.v) = <<kB, kA>>

-----------------------------------------------------------------------------
(* Properties of the implied table mode *)

\* C22: with no --key and no --output switch the query tool is in table
\* mode: wants_table is true, the output is newline-terminated, and every
\* top-level entry of the packet with a plain value, the sole entry of a
\* one-key packet included, is rendered as "key TAB value".
C22_ImpliedTable ==
    ( /\ pc \in {"written", "reported", "done"}
      /\ IsDict(table) /\ table.v # <<>>
      /\ switches.key.v = <<>> /\ switches.output = NotGiven ) =>
        /\ wants_table(switches)
        /\ stdoutEnd = NL
        /\ \A i \in 1..Len(table.v) :
              table.v[i][2].t = "int" =>
                 \E j \in 1..Len(output) :
                    output[j] = table.v[i][1] \o TAB \o PyStr(table.v[i][2])

-----------------------------------------------------------------------------
(* ADPNGetJSON: construction of a packet from --key and --value *)

\* a MIME type as the pattern of test_format splits it: major/minor;parameter
Mime(major, minor, parameter) ==
    [major |-> major, minor |-> minor, parameter |-> parameter]

\* test_format(format1, format2): format2 may leave out the major type and
\* the parameter; text/text reads as text/plain
test_format(format1, format2) ==
    LET major2 == IF format2.major = NoFormat THEN format1.major ELSE format2.major
        minor2 == IF major2 = "text" /\ format2.minor = "text" THEN "plain"
                  ELSE format2.minor
        parameter2 == IF format2.parameter = NoFormat THEN format1.parameter
                      ELSE format2.parameter
    IN  /\ format1.major = major2
        /\ format1.minor = minor2
        /\ format1.parameter = parameter2

\* test_input_format(format): against switches.get('input', 'text/plain')
test_input_format(sw, format) ==
    test_format(format, IF "input" \in DOMAIN sw THEN sw.input
                        ELSE Mime("text", "plain", NoFormat))

\* get_value that takes the first --value for every key
get_value_first(sw, i) == Answer(VStr(data_values(sw)[1]))

\* get_value(i): the i-th --value (from 0) as given, or as the store reads
\* it when the input format is JSON; the store raises JSONDecodeError on
\* text that is not JSON
get_value(sw, i) ==
    LET value == data_values(sw)[i + 1]
        r == accept(<<TextLine(value)>>, FALSE)
    IN  IF test_input_format(sw, Mime("application", "json", NoFormat))
        THEN IF r.ok THEN Answer(VDict(allData(r.data, TRUE)))
             ELSE Raises("JSONDecodeError")
        ELSE Answer(VStr(value))

RECURSIVE keyvalue_loop(_, _, _)
\* the for loop of display_keyvalue from position key_i (from 0):
\* table[key] = get_value(key_i), or None past the last value
keyvalue_loop(sw, tbl, key_i) ==
    IF key_i >= Len(data_keys(sw)) THEN Answer(VDict(tbl))
    ELSE
      LET value == IF key_i < Len(data_values(sw)) THEN get_value(sw, key_i)
                   ELSE Answer(None)
      IN  IF value.raised # "" THEN value
          ELSE keyvalue_loop(sw, DictSet(tbl, data_keys(sw)[key_i + 1], value.ok),
                             key_i + 1)

\* the switches as get_output_format reads them once _default_mime is mime
with_default_mime(sw, mime) ==
    IF sw.output = NotGiven THEN [sw EXCEPT !.output = <<mime>>] ELSE sw

\* display_keyvalue, the branch of execute for --key with --value: the
\* packet is built from the switches, rendered with application/json as
\* the default format and written; a JSONDecodeError of get_value is caught
\* nowhere
DisplayKeyvalue ==
    /\ pc = "start"
    /\ scriptname = JsonScript
    /\ ~ switched(switches, "help") /\ ~ switched(switches, "version")
    /\ wants_keyvalue(switches)
    /\ LET kv == keyvalue_loop(switches, <<>>, 0)
           sw == with_default_mime(switches, "application/json")
           st == display_data(sw, [output |-> output, flags |-> flags,
                                   raised |-> kv.raised],
                              kv.ok, kv.ok, TRUE, 0)
       IN  IF kv.raised # "" \/ st.raised # ""
           THEN /\ pc' = "aborted"
                /\ exc' = IF kv.raised # "" THEN kv.raised ELSE st.raised
                /\ exitStatus' = 1
                /\ UNCHANGED <<table, output, flags, stdout, stdoutEnd>>
           ELSE /\ pc' = "written"
                /\ table' = kv.ok
                /\ output' = st.output
                /\ flags' = st.flags
                /\ stdoutEnd' = get_output_terminator(sw, st.output)
                /\ stdout' = stdout \o write_output(sw, st.output,
                                          get_output_terminator(sw, st.output))
                /\ UNCHANGED <<exc, exitStatus>>
    /\ UNCHANGED <<switches, stdin, jsonRaw, jsonData, stderr, _exitcode,
                   accepts, pipeVars, toolVars>>

\* the --value texts of the model: x, 7 and {"b":2}
ValueTexts == {<<"x">>, <<"7">>, TextB2}

KeyValueSwitches ==
    {Switches(k, o, FALSE, FALSE, FALSE, FALSE) @@ [value |-> v] :
        k \in {<<>>, <<kA>>, <<kA, kB>>, <<kB, kA, kC>>},
        o \in OutputSwitches,
        v \in SeqsUpTo(ValueTexts, MaxItems)}
    \cup {Switches(k, NotGiven, FALSE, FALSE, FALSE, FALSE)
              @@ [value |-> v, input |-> i] :
        k \in {<<kA>>, <<kA, kB>>},
        v \in SeqsUpTo({<<"x">>, TextB2}, MaxItems),
        i \in {Mime("application", "json", NoFormat),
               Mime(NoFormat, "json", NoFormat),
               Mime(NoFormat, "text", NoFormat)}}

InitKeyValue ==
    /\ switches \in KeyValueSwitches
    /\ stdin \in {<<>>, <<JsonLine(Obj1)>>}
    /\ pc = "start"
    /\ QueryFresh
    /\ PipeIdle

NextKeyValue ==
    \/ DisplayKeyvalue
    \/ GetJsonInput
    \/ DisplayData
    \/ WriteOutput
    \/ ReportErrors
    \/ Exit

SpecKeyValue == InitKeyValue /\ [][NextKeyValue]_vars

-----------------------------------------------------------------------------
(* Properties of the construction mode *)

\* the packet that pairs the i-th key with the i-th value
C23_Packet ==
    VDict([i \in 1..Len(switches.key.v) |->
              <<switches.key.v[i],
                IF i > Len(switches.value) THEN None
                ELSE IF "input" \in DOMAIN switches /\ switches.input.minor = "json"
                THEN json_loads(switches.value[i]).val
                ELSE VStr(switches.value[i])>>])

\* C23: when both --key and --value are given, the query tool builds the
\* packet that pairs the i-th key with the i-th value (null for a key with
\* no value), never reads standard input, and renders the packet as
\* application/json unless --output asks for another format.
C23_Construction ==
    (wants_keyvalue(switches) /\ pc \in {"written", "reported", "done"}) =>
        /\ table = C23_Packet
        /\ accepts = <<>> /\ jsonRaw = None /\ jsonData = <<>>
        /\ flags = NoFlags
        /\ switches.output = NotGiven =>
              /\ output = <<JsonDumps(C23_Packet)>>
              /\ stdout = JsonDumps(C23_Packet)
        /\ switches.output # NotGiven =>
              wants_json_output(switches) <=> output = <<JsonDumps(C23_Packet)>>

\* --key=a --key=b --value=x with input waiting: {"a": "x", "b": null}
C23_Witness ==
    /\ pc = "done"
    /\ stdin = <<JsonLine(Obj1)>>
    /\ switches.key.v = <<kA, kB>>
    /\ data_values(switches) = << <<"x">> >>
    /\ switches.output = NotGiven
    /\ stdout = <<"{", "\"", "a", "\"", ":", " ", "\"", "x", "\"", ",", " ",
                  "\"", "b", "\"", ":", " ", "n", "u", "l", "l", "}">>
    /\ exitStatus = 0

-----------------------------------------------------------------------------
(* __main__ of adpn-do-package.py: the positional arguments.  shift_args   *)
(* and align_switches are functions of myLockssScripts, modelled from the   *)
(* specification.                                                           *)

\* shift_args(args): the first token and the tokens after it
shift_args(a) == <<Head(a), Tail(a)>>

\* bind_positional that binds a token to a switch that is set, too
bind_positional_always(sw, a, name) ==
    IF Len(a) > 0
    THEN [switches |-> [sw EXCEPT ![name] = shift_args(a)[1]],
          args |-> shift_args(a)[2]]
    ELSE [switches |-> sw, args |-> a]

\* if switches.get(name) is None : if len(args) > 0 :
\*     ( switches[name], args ) = shift_args(args)
bind_positional(sw, a, name) ==
    IF sw[name] = None /\ Len(a) > 0
    THEN [switches |-> [sw EXCEPT ![name] = shift_args(a)[1]],
          args |-> shift_args(a)[2]]
    ELSE [switches |-> sw, args |-> a]

\* align_switches(left, right, switches): if either is set, both read the
\* same value; which one is kept when both are set is not stated, and is
\* either
align_switches(left, right, sw) ==
    IF sw[left] = None /\ sw[right] = None THEN {sw}
    ELSE IF sw[right] = None THEN {[sw EXCEPT ![right] = sw[left]]}
    ELSE IF sw[left] = None THEN {[sw EXCEPT ![left] = sw[right]]}
    ELSE {[sw EXCEPT ![right] = sw[left]], [sw EXCEPT ![left] = sw[right]]}

\* the positional tokens and the values given by switch
Tokens == {VStr(<<"t", "1">>), VStr(<<"t", "2">>), VStr(<<"t", "3">>)}
GivenLocal == VStr(<<"L">>)
GivenRemote == VStr(<<"R">>)
GivenBase == VStr(<<"S">>)

\* the switches of the packaging tool that __main__ binds, after parse()
MainSwitches ==
    {[n \in {"local", "remote", "stage/base"} |->
         CASE n = "local" -> l [] n = "remote" -> r [] OTHER -> b] :
        l \in {None, GivenLocal}, r \in {None, GivenRemote},
        b \in {None, GivenBase}}

InitMain ==
    /\ switches \in MainSwitches
    /\ args \in SeqsUpTo(Tokens, MaxTokens)
    /\ pc = "main"
    /\ scriptname = PackageScript
    /\ stdin = <<>> /\ jsonRaw = None /\ jsonData = <<>> /\ table = None
    /\ output = <<>> /\ flags = NoFlags /\ stdout = <<>> /\ stdoutEnd = <<>>
    /\ stderr = <<>> /\ _exitcode = 0 /\ exitStatus = -1 /\ accepts = <<>>
    /\ exc = NoException /\ _verbose = 0 /\ _debug = 0 /\ package = NoPackage
    /\ reader = NoReads
    /\ PipeIdle

MainStep(sw, a, next) ==
    /\ switches' = sw
    /\ args' = a
    /\ pc' = next
    /\ UNCHANGED <<stdin, jsonRaw, jsonData, table, output, flags, stdout,
                   stdoutEnd, stderr, _exitcode, exitStatus, accepts, exc,
                   pipeVars, scriptname, _verbose, _debug, package, reader>>

\* the first argument goes to --local=...
BindLocal ==
    /\ pc = "main"
    /\ LET r == bind_positional(switches, args, "local")
       IN  MainStep(r.switches, r.args, "local")

\* the next argument goes to --remote=...
BindRemote ==
    /\ pc = "local"
    /\ LET r == bind_positional(switches, args, "remote")
       IN  MainStep(r.switches, r.args, "remote")

AlignRemote ==
    /\ pc = "remote"
    /\ \E sw \in align_switches("remote", "stage/base", switches) :
          MainStep(sw, args, "new")

NextMain == BindLocal \/ BindRemote \/ AlignRemote

SpecMain == InitMain /\ [][NextMain]_vars

-----------------------------------------------------------------------------
(* Properties of the positional arguments *)

\* the switch a binding step is about
C24_Turn == IF pc = "main" THEN "local" ELSE "remote"

\* a binding step: a switch that is set is left alone; a switch that
\* changes is the one whose turn it is, takes the first token left, and
\* that token leaves the list; an unset switch whose turn it is takes the
\* first token when there is one; a token leaves the list only by being
\* bound, to one switch
C24_Step ==
    pc \in {"main", "local"} =>
        /\ \A n \in {"local", "remote"} :
              /\ switches[n] # None => switches'[n] = switches[n]
              /\ switches'[n] # switches[n] =>
                    /\ n = C24_Turn
                    /\ switches'[n] = Head(args)
                    /\ args' = Tail(args)
              /\ (switches[n] = None /\ args # <<>> /\ n = C24_Turn) =>
                    switches'[n] = Head(args)
        /\ args' # args =>
              \E n \in {"local", "remote"} :
                 /\ switches'[n] # switches[n]
                 /\ \A m \in {"local", "remote"} \ {n} :
                       switches'[m] = switches[m]
        /\ switches'["stage/base"] = switches["stage/base"]

\* after both binding steps a token is left only when both switches are set
C24_Bound ==
    (pc = "remote" /\ args # <<>>) =>
        switches["local"] # None /\ switches["remote"] # None

\* C24: positional tokens are bound in order to local, then to remote, each
\* only when that switch is not set: a switch set on the command line is
\* never overwritten by a positional token, and each token is bound to one
\* switch at most.
C24_PositionalBinding == [][C24_Step]_vars /\ []C24_Bound

\* --remote=R t1 t2: local is t1, remote is still R and t2 is left
C24_Witness ==
    /\ pc = "remote"
    /\ switches["local"] = VStr(<<"t", "1">>)
    /\ switches["remote"] = GivenRemote
    /\ args = <<VStr(<<"t", "2">>)>>

-----------------------------------------------------------------------------
(* The reading of the standard input, line by line *)

\* lineInput = [ line for line in fileinput.input() ]: one more line
ReadLine ==
    /\ pc \in {"start", "reading"}
    /\ scriptname = JsonScript
    /\ ~ switched(switches, "help") /\ ~ switched(switches, "version")
    /\ ~ wants_keyvalue(switches)
    /\ reader.offset < Len(stdin)
    /\ reader' = [offset |-> reader.offset + 1,
                  reads |-> IF pc = "start" THEN reader.reads + 1
                            ELSE reader.reads]
    /\ pc' = "reading"
    /\ UNCHANGED <<switches, stdin, jsonRaw, jsonData, table, output, flags,
                   stdout, stdoutEnd, stderr, _exitcode, exitStatus, accepts,
                   exc, pipeVars, toolRest>>

\* the input has ended: the list is complete and goes to the store
EndOfInput ==
    /\ pc \in {"start", "reading"}
    /\ scriptname = JsonScript
    /\ ~ switched(switches, "help") /\ ~ switched(switches, "version")
    /\ ~ wants_keyvalue(switches)
    /\ reader.offset = Len(stdin)
    /\ JsonInput(SubSeq(stdin, 1, reader.offset))
    /\ reader' = [reader EXCEPT !.reads = IF pc = "start" THEN @ + 1 ELSE @]
    /\ UNCHANGED <<switches, stdin, output, stdout, stdoutEnd, stderr,
                   _exitcode, pipeVars, toolRest>>

InitReading ==
    \/ /\ switches \in {Switches(k, NotGiven, FALSE, FALSE, FALSE, FALSE) :
                           k \in {<<>>, <<kA>>}}
       /\ stdin \in SeqsUpTo(QueryLines, MaxLines)
       /\ pc = "start"
       /\ QueryFresh
       /\ PipeIdle
    \/ InitPipeline

NextReading ==
    \/ ReadLine
    \/ EndOfInput
    \/ DisplayData
    \/ WriteOutput
    \/ ReportErrors
    \/ Exit
    \/ (pc = "idle" /\ NextPipeline)

SpecReading == InitReading /\ [][NextReading]_vars

-----------------------------------------------------------------------------
(* Properties of the reading *)

\* the standard input of the process: of the pipeline helper, or of the
\* query tool
C25_Input == IF pc = "idle" THEN stream_in ELSE stdin

\* the packet store was handed lines
C25_Handed ==
    accepts # <<>> \/ ~ IsNone(jsonRaw) \/ ~ IsNone(pipelines) \/ pipeData # <<>>

\* a step hands lines to the store only when the input has been read to
\* its end, and no line is read once the store was handed lines
C25_Step ==
    /\ (accepts' # accepts \/ jsonRaw' # jsonRaw \/ pipeData' # pipeData) =>
          reader'.offset = Len(C25_Input)
    /\ C25_Handed => reader' = reader
    /\ reader'.offset >= reader.offset

\* the store holds lines only of an input that was read to its end, in
\* one read
C25_Read ==
    /\ reader.reads <= 1
    /\ C25_Handed => reader.offset = Len(C25_Input) /\ reader.reads = 1
    /\ accepts # <<>> => jsonRaw = RawText(stdin)
    /\ ~ IsNone(pipelines) => pipelines = VList(NonEmptyLines(stream_in))

\* C25: the standard input is read to its end before any JSON parsing
\* begins: in the pipeline helper and in the query tool no line is handed
\* to the packet store until the end of the input was reached, and the
\* input is read at most once in a process.
C25_ReadBeforeParse == [][C25_Step]_vars /\ []C25_Read

\* the query tool has read two lines, one by one, and then handed both
C25_Witness ==
    /\ pc = "input"
    /\ Len(stdin) = 2
    /\ reader = [offset |-> 2, reads |-> 1]
    /\ accepts = <<FALSE>>

-----------------------------------------------------------------------------
(* Properties of the order of the packaging steps *)

\* the positions of the lines of a stream that carry one of the messages
C26_Lines(stream, messages) ==
    IF scriptname # PackageScript THEN {}
    ELSE {i \in 1..Len(stream) : stream[i].message \in messages}

\* the output packet is on standard output
C26_Packet == C26_Lines(stdout, {"json.dumps(data)", "str(data)"}) # {}

\* the step that comes before a step of the try block
C26_Before(step) ==
    CASE step = "output" -> "manifest"
      [] step = "manifest" -> "bagit"
      [] step = "bagit" -> "confirm"
      [] OTHER -> "start"

\* a step of the run: the packet is written by the output step alone; a
\* step of the try block is entered from the step before it, when that
\* one raised nothing; once an exception is raised no step runs and
\* nothing more is written to standard output
C26_Step ==
    /\ scriptname = PackageScript =>
          /\ stdout' # stdout /\ C26_Lines(stdout', {"json.dumps(data)", "str(data)"})
                                    # C26_Lines(stdout, {"json.dumps(data)", "str(data)"})
                => pc = "output" /\ pc' = "finished" /\ exc = NoException
          /\ (pc' # pc /\ pc' \in {"confirm", "bagit", "manifest", "output"}) =>
                pc = C26_Before(pc') /\ exc' = NoException
          /\ pc \in {"raised", "aborted"} =>
                /\ pc' \in {"raised", "finished", "aborted"}
                /\ stdout' = stdout

\* the status lines of the three checks come before the packet, in the
\* order of the steps, when the notices are printed to standard output
C26_Order ==
    (C26_Packet /\ plain_text_output(switches) /\ _verbose >= 2) =>
        \E i, j, k, l \in 1..Len(stdout) :
           /\ i < j /\ j < k /\ k < l
           /\ stdout[i].message = "* Confirming required LOCKSS plugin parameters"
           /\ stdout[j].message \in {"* Checking BagIt packaging: ",
                                     "* Skipped BagIt validation: "}
           /\ stdout[k].message \in {"* Confirming manifest HTML: ",
                                     "* Requesting LOCKSS manifest HTML from service: "}
           /\ stdout[l].tag = "JSON PACKET:\t"

\* a requirement failure: no packet and an exit code that is not zero
C26_Failure ==
    \A f \in {"parameter", "requirement", "bagit", "manifest"} :
       Failed(f) =>
          /\ ~ C26_Packet
          /\ ToolEnded => exitStatus # 0

\* C26: the output packet, labelled JSON PACKET, is written to standard
\* output only after the confirmation of the plugin parameters, the BagIt
\* check and the manifest check have completed, in that order; when one of
\* them raises a requirement failure the run stops at once, no packet is
\* written and the exit code is not zero.
C26_StepOrder ==
    /\ [][C26_Step]_vars
    /\ [](C26_Order /\ C26_Failure)
    /\ [](C26_Packet =>
             package.fault \in {"none", "skip"}
                /\ pc \in {"finished", "done", "aborted"})

\* the packet was written after the three status lines, and the run ended
\* with exit code 0
C26_Witness ==
    /\ C26_Packet
    /\ plain_text_output(switches) /\ _verbose >= 2
    /\ Len(stdout) >= 4
    /\ pc = "done"
    /\ exitStatus = 0

-----------------------------------------------------------------------------
(* The query tool with a --template *)

\* %(a)s-%(b)s
TemplatePair == <<TemplateKey(kA), TemplateText(<<"-">>), TemplateKey(kB)>>
\* the template that names the missing key
TemplateMissing == <<TemplateKey(kMissing)>>

InitTemplate ==
    /\ switches \in
          {[Switches(k, o, FALSE, FALSE, FALSE, FALSE) EXCEPT !.template = t] :
              k \in KeyLists, o \in {NotGiven, <<"application/json">>},
              t \in {NotGiven, TemplatePair, TemplateMissing}}
    /\ stdin \in SeqsUpTo({JsonLine(Obj1), JsonLine(Obj2), JsonLine(Obj4)}, MaxLines)
    /\ pc = "start"
    /\ QueryFresh
    /\ PipeIdle

SpecTemplate == InitTemplate /\ [][Next]_vars

-----------------------------------------------------------------------------
(* Properties of the rendering up to a missing key *)

\* the place in the requested keys of the first key the packet lacks
C27_Absent ==
    CHOOSE i \in 1..Len(switches.key.v) :
       /\ ~ HasKey(table.v, switches.key.v[i])
       /\ \A j \in 1..(i - 1) : HasKey(table.v, switches.key.v[j])

\* several keys were requested of the packet, which lacks one of them
C27_Case ==
    /\ pc \in {"displayed", "written", "reported", "done"}
    /\ IsDict(table)
    /\ Len(switches.key.v) > 1
    /\ \E i \in 1..Len(switches.key.v) : ~ HasKey(table.v, switches.key.v[i])

\* the requested keys before the first absent one, rendered
C27_Pairs ==
    [i \in 1..(C27_Absent - 1) |->
        get_output(switches, Lookup(table.v, switches.key.v[i]),
                   switches.key.v[i], TRUE)[1]]

\* C27: when several keys are requested of a dict packet that lacks one of
\* them, the rendering stops at the first absent key: the keys listed
\* before it are rendered, the keys after it are not, and exactly one
\* key_error flag is recorded.
C27_PartialRendering ==
    C27_Case =>
        /\ flags.key_error = <<VStr(switches.key.v[C27_Absent])>>
        /\ output =
              IF wants_json_output(switches)
              THEN <<JsonDumps(VDict([i \in 1..(C27_Absent - 1) |->
                        <<switches.key.v[i],
                          Lookup(table.v, switches.key.v[i])>>]))>>
              ELSE IF wants_table(switches) THEN <<Join(C27_Pairs, TAB)>>
              ELSE C27_Pairs

-----------------------------------------------------------------------------
(* The query tool with --key+, --value+, --value: and --into *)

UpdateSwitches ==
    {Switches(<<>>, o, n, FALSE, FALSE, FALSE)
        @@ [x \in {"key+", "value+", "value:", "into"} |->
               CASE x = "key+" -> kp [] x = "value+" -> vp
                 [] x = "value:" -> vc [] OTHER -> into] :
        o \in {NotGiven, <<"application/json">>}, n \in BOOLEAN,
        kp \in {None, VStr(kA), VStr(kC), VStr(kMissing)},
        vp \in {None, VStr(<<"x">>), VList(<<VStr(<<"x">>), VStr(<<"y">>)>>)},
        vc \in {None, VStr(<<"z">>)},
        into \in {None, VStr(<<"n">>)}}

InitUpdate ==
    /\ switches \in UpdateSwitches
    /\ stdin \in {<<JsonLine(Obj1)>>, <<JsonLine(Obj2)>>, <<JsonLine(Obj3)>>,
                  <<ProseLine>>}
    /\ pc = "start"
    /\ QueryFresh
    /\ PipeIdle

SpecUpdate == InitUpdate /\ [][Next]_vars

-----------------------------------------------------------------------------
(* Properties of the --key+ update *)

\* the packet the store parsed, as get_json_input takes it from the store
C28_Parsed == allData(jsonData, wants_splat(switches))

\* --key+=K was given and the input was accepted
C28_Case ==
    /\ pc # "start"
    /\ jsonData # <<>>
    /\ ~ IsNone(switches["key+"])

\* the packet after the update, inside the --into wrap when there is one
C28_Updated ==
    IF IsNone(switches["into"]) THEN table
    ELSE Lookup(table.v, switches["into"].v)

\* the value the claim gives K
C28_Value ==
    LET K == switches["key+"].v
        V == switches["value+"]
        old == DictGet(C28_Parsed, K)
    IN  IF IsNone(V) THEN switches["value:"]
        ELSE IF IsNone(old) THEN V
        ELSE IF IsList(old) /\ ~ IsList(V) THEN VList(old.v \o <<V>>)
        ELSE IF IsList(old) THEN VList(old.v \o V.v)
        ELSE IF IsStr(old) /\ IsStr(V) THEN VStr(old.v \o V.v)
        ELSE None

\* C28: with --key+=K and --value+=V the resulting packet equals the
\* parsed packet on every key other than K, and K maps to V when K was
\* absent, to the old list with V appended when the old value is a list
\* and V is not, and to old+V otherwise; with --value:=V instead the old
\* value is discarded and K maps to V; an --into=N wrap is applied after
\* the update, giving {N: updated packet}.
C28_KeyUpdate ==
    C28_Case =>
        /\ pc # "aborted" /\ IsDict(table)
        /\ ~ IsNone(switches["into"]) => Keys(table.v) = <<switches["into"].v>>
        /\ IsDict(C28_Updated)
        /\ \A i \in 1..Len(C28_Parsed) :
              C28_Parsed[i][1] # switches["key+"].v =>
                 DictGet(C28_Updated.v, C28_Parsed[i][1]) = C28_Parsed[i][2]
        /\ \A i \in 1..Len(C28_Updated.v) :
              \/ C28_Updated.v[i][1] = switches["key+"].v
              \/ HasKey(C28_Parsed, C28_Updated.v[i][1])
        /\ HasKey(C28_Updated.v, switches["key+"].v)
        /\ Lookup(C28_Updated.v, switches["key+"].v) = C28_Value

-----------------------------------------------------------------------------
(* Properties of the conditional pipeline *)

\* a conditional pipeline whose stream is neither a FIFO nor a file
C29_Terminal == conditional /\ ~ piped

\* C29: for a pipeline created with conditional=True whose input stream
\* is neither a FIFO nor a regular file, the stream is never read,
\* get_data returns None for every key, and backfilled returns a mapping
\* equal to its input table.
C29_ConditionalNeverReads ==
    C29_Terminal =>
        /\ reader = NoReads
        /\ IsNone(pipelines)
        /\ call.op = "get_data" => ~ call.raised /\ IsNone(call.result)
        /\ call.op = "backfilled" =>
              /\ ~ call.raised
              /\ call.result = VDict(call.before)
              /\ optTable = call.before

\* backfilled went to get_data for an option left unset, on a terminal
\* with lines waiting, and returned its input
C29_Witness ==
    /\ C29_Terminal
    /\ \E i \in 1..Len(stream_in) : stream_in[i].kind = "json"
    /\ call.op = "backfilled"
    /\ IsNone(DictGet(call.before, call.key.v))
    /\ call.result = VDict(call.before)
    /\ reader = NoReads

-----------------------------------------------------------------------------
(* A tool object whose callers set exit codes and report errors in any     *)
(* order.  call keeps the last call: key is the code passed (None when     *)
(* write_error is given no code), before the code stored when the call     *)
(* began, result the code stored when it ended.                            *)

\* the codes the callers pass: the codes of the two tools, the codes next
\* to both ends of the accepted range, and those of a BagIt validation
AttemptedCodes ==
    {-1, 0, 1, ParameterCode, ManifestCode, BagItOffset + 1, MaxExitCode - 1,
     InterruptCode, MaxExitCode + 1, BagItOffset + MaxExitCode}

InitExit ==
    /\ QueryIdle
    /\ PipeIdle

\* tool.exitcode = code, or tool.set_exitcode(code)
SetExitcode(code) ==
    /\ pc = "idle"
    /\ LET r == set_exitcode(_exitcode, code)
       IN  /\ _exitcode' = r.code
           /\ exc' = IF r.ok THEN NoException ELSE "ValueError"
           /\ call' = [op |-> "set_exitcode", key |-> VInt(code),
                       source |-> None, raised |-> ~ r.ok,
                       before |-> _exitcode, piped |-> None,
                       result |-> r.code]
    /\ UNCHANGED <<switches, stdin, pc, jsonRaw, jsonData, table, output,
                   flags, stdout, stdoutEnd, stderr, exitStatus, accepts,
                   stream_in, piped, conditional, pipelines, pipeData, cli,
                   defaultsFile, builtin, optTable, toolVars>>

\* tool.write_error(code, message): the code is set when one is given,
\* then the message is printed to standard error
WriteError(given, code) ==
    /\ pc = "idle"
    /\ Len(stderr) < MaxLines
    /\ LET r == write_error(_exitcode, scriptname, code, "message", "", None)
           ok == ~ given \/ r.ok
       IN  /\ _exitcode' = IF given THEN r.code ELSE _exitcode
           /\ stderr' = IF ok THEN Append(stderr, r.line) ELSE stderr
           /\ exc' = IF ok THEN NoException ELSE "ValueError"
           /\ call' = [op |-> "write_error",
                       key |-> IF given THEN VInt(code) ELSE None,
                       source |-> None, raised |-> ~ ok,
                       before |-> _exitcode, piped |-> None,
                       result |-> IF given THEN r.code ELSE _exitcode]
    /\ UNCHANGED <<switches, stdin, pc, jsonRaw, jsonData, table, output,
                   flags, stdout, stdoutEnd, exitStatus, accepts,
                   stream_in, piped, conditional, pipelines, pipeData, cli,
                   defaultsFile, builtin, optTable, toolVars>>

NextExit ==
    \/ \E code \in AttemptedCodes : SetExitcode(code)
    \/ \E given \in BOOLEAN, code \in AttemptedCodes : WriteError(given, code)

SpecExit == InitExit /\ [][NextExit]_vars

-----------------------------------------------------------------------------
(* Properties of the stored exit code *)

\* the last call tried to set a code outside 0..255
C30_OutOfRange ==
    /\ call.op \in {"set_exitcode", "write_error"}
    /\ ~ IsNone(call.key)
    /\ call.key.v \notin 0..MaxExitCode

\* C30: after any sequence of set_exitcode / write_error calls on an
\* ADPNCommandLineTool, the stored exit code is an integer in 0..255; an
\* attempt to set a code outside that range raises ValueError and leaves
\* the previously stored exit code unchanged.
C30_ExitCodeRange ==
    /\ _exitcode \in 0..MaxExitCode
    /\ C30_OutOfRange =>
          /\ call.raised /\ exc = "ValueError"
          /\ _exitcode = call.before

\* write_error was given a code that is too large after another code had
\* been stored: ValueError, and the stored code is still there
C30_Witness ==
    /\ call.op = "write_error"
    /\ C30_OutOfRange
    /\ call.key.v > MaxExitCode
    /\ exc = "ValueError"
    /\ _exitcode = call.before
    /\ _exitcode = ManifestCode

====
